---- MODULE Spec2Model ----
(***************************************************************************)
(* A model of the tasknode protocol engine: memo_type derivation, the      *)
(* request/response pairing queries and the SQL function that executes     *)
(* them, task lifecycle reconstruction and the reward extraction.          *)
(*                                                                         *)
(* Text is modelled as sequences of one-character strings, so that the     *)
(* regular expressions and the string operations of the code are computed  *)
(* character by character, as the code computes them.                      *)
(***************************************************************************)
EXTENDS Integers, Sequences, FiniteSets, TLC

VARIABLES
    \* memo_type derivation (classification and find_response of one observed memo)
    memo,        \* the memo_type of the observed transaction
    pattern,     \* the pattern id the graph classified it to ("unclassified" before)
    derived      \* the outcome of derive_response_memo_type for it

VARIABLES
    \* request/response pairing (the pipeline of the module docstring)
    cfg,         \* RuntimeConfig: USE_TESTNET, ENABLE_REINITIATIONS
    store,       \* the rows of the projection store (decoded_memos)
    clock,       \* the close time of the last ledger
    outbox,      \* outbound memos handed to the submission collaborator, not yet on the ledger
    sent,        \* per request hash, the number of responses submitted for it
    workers      \* the observations being processed

VARIABLES
    \* task lifecycle reconstruction
    history,     \* the memo groups of the account's history
    tasks,       \* the result of the last get_tasks
    view         \* the result of the last get_proposals_by_state

VARIABLES
    \* reward extraction
    content,     \* the reasoning output
    extracted,   \* the result of _extract_pft_reward
    summary,     \* the result of _extract_summary_judgement
    flags,       \* the calls of flag_address that succeeded
    reward_memo  \* the outcome of the last construct_response

VARIABLES
    \* one call of a rule or generator method
    args,        \* the arguments of the call
    outcome      \* what the call returned or raised

deriveVars == <<memo, pattern, derived>>
pairVars == <<cfg, store, clock, outbox, sent, workers>>
taskVars == <<history, tasks, view>>
rewardVars == <<content, extracted, summary, flags, reward_memo>>
callVars == <<args, outcome>>

VARIABLES
    \* the tables the triggers of the database maintain
    postfiat_tx_cache,   \* the transactions inserted so far
    transaction_memos,   \* the rows process_tx_memos wrote
    pft_holders          \* per account, its row of pft_holders

tableVars == <<postfiat_tx_cache, transaction_memos, pft_holders>>

VARIABLES
    \* the business logic TaskManagementRules.create builds
    transaction_graph,   \* the patterns added to the InteractionGraph, in order
    pattern_rule_map     \* the rule bound to each pattern id

graphVars == <<transaction_graph, pattern_rule_map>>

VARIABLES
    \* the Discord bot
    monitor,         \* the NodeMonitor: its fields and the position of monitor()
    _active_chats,   \* WAIHandler._active_chats: the user ids that hold a ChatState
    chat             \* per /wai_chat interaction, the position of the chat command

discordVars == <<monitor, _active_chats, chat>>

vars == <<deriveVars, pairVars, taskVars, rewardVars, callVars, tableVars, graphVars, discordVars>>

----------------------------------------------------------------------------
(* Text literals of the code, as character sequences *)

TASK_REQUEST == <<"T", "A", "S", "K", "_", "R", "E", "Q", "U", "E", "S", "T">>
PROPOSAL == <<"P", "R", "O", "P", "O", "S", "A", "L">>
ACCEPTANCE == <<"A", "C", "C", "E", "P", "T", "A", "N", "C", "E">>
REFUSAL == <<"R", "E", "F", "U", "S", "A", "L">>
TASK_COMPLETION == <<"T", "A", "S", "K", "_", "C", "O", "M", "P", "L", "E", "T", "I", "O", "N">>
VERIFICATION_PROMPT == <<"V", "E", "R", "I", "F", "I", "C", "A", "T", "I", "O", "N", "_", "P", "R", "O", "M", "P", "T">>
VERIFICATION_RESPONSE == <<"V", "E", "R", "I", "F", "I", "C", "A", "T", "I", "O", "N", "_", "R", "E", "S", "P", "O", "N", "S", "E">>
REWARD == <<"R", "E", "W", "A", "R", "D">>
ODV_REQUEST == <<"O", "D", "V", "_", "R", "E", "Q", "U", "E", "S", "T">>
ODV_RESPONSE == <<"O", "D", "V", "_", "R", "E", "S", "P", "O", "N", "S", "E">>
INITIATION_RITE == <<"I", "N", "I", "T", "I", "A", "T", "I", "O", "N", "_", "R", "I", "T", "E">>
INITIATION_REWARD == <<"I", "N", "I", "T", "I", "A", "T", "I", "O", "N", "_", "R", "E", "W", "A", "R", "D">>
HANDSHAKE == <<"H", "A", "N", "D", "S", "H", "A", "K", "E">>
HANDSHAKE_RESPONSE == <<"H", "A", "N", "D", "S", "H", "A", "K", "E", "_", "R", "E", "S", "P", "O", "N", "S", "E">>

Sep == <<"_", "_">>

\* Sample timestamps, disambiguators and prefixes the observed memo_types are built of
Stamp1 == <<"2", "0", "2", "5", "-", "0", "1", "-", "1", "3", "_", "0", "6", ":", "5", "3">>
Stamp2 == <<"2", "0", "2", "5", "-", "0", "2", "-", "2", "8", "_", "1", "7", ":", "4", "0">>
DisQQ74 == <<"_", "_", "Q", "Q", "7", "4">>
DisTASK == <<"_", "_", "T", "A", "S", "K">>
Dislow == <<"_", "_", "q", "q", "7", "4">>
VersionPrefix == <<"v", "1", ".", "0", ".">>

----------------------------------------------------------------------------
(* UNIQUE_ID_PATTERN_V1 and the functions built on it *)

IsDigit(c) == c \in {"0", "1", "2", "3", "4", "5", "6", "7", "8", "9"}

IsUpperOrDigit(c) ==
    \/ IsDigit(c)
    \/ c \in {"A", "B", "C", "D", "E", "F", "G", "H", "I", "J", "K", "L", "M",
              "N", "O", "P", "Q", "R", "S", "T", "U", "V", "W", "X", "Y", "Z"}

\* \d{4}-\d{2}-\d{2}_\d{2}:\d{2} matches s at position i
StampAt(s, i) ==
    /\ i >= 1
    /\ i + 15 <= Len(s)
    /\ \A k \in {0, 1, 2, 3, 5, 6, 8, 9, 11, 12, 14, 15} : IsDigit(s[i + k])
    /\ s[i + 4] = "-"
    /\ s[i + 7] = "-"
    /\ s[i + 10] = "_"
    /\ s[i + 13] = ":"

\* __[A-Z0-9]{4} matches s at position j
DisambAt(s, j) ==
    /\ j + 5 <= Len(s)
    /\ s[j] = "_"
    /\ s[j + 1] = "_"
    /\ \A k \in 2..5 : IsUpperOrDigit(s[j + k])

\* The optional group of the pattern is greedy and nothing follows it in the
\* pattern: it is taken whenever it matches.
GreedyIdLen(s, i) == IF DisambAt(s, i + 16) THEN 22 ELSE 16

\* The length of the match of UNIQUE_ID_PATTERN_V1 at position i
IdLenAt(s, i) == GreedyIdLen(s, i)

\* UNIQUE_ID_PATTERN_V1.search(s): the leftmost position the pattern matches at, 0 if none
IdSearch(s) ==
    IF \E i \in 1..Len(s) : StampAt(s, i)
    THEN CHOOSE i \in 1..Len(s) : StampAt(s, i) /\ \A j \in 1..(i - 1) : ~StampAt(s, j)
    ELSE 0

\* UNIQUE_ID_PATTERN_V1.match(s): the pattern must match at the start
IdMatch(s) == IF StampAt(s, 1) THEN 1 ELSE 0

ValueError == [ok |-> FALSE, value |-> <<>>]
Ok(v) == [ok |-> TRUE, value |-> v]

derive_response_memo_type(request_memo_type, response_memo_type) ==
    LET i == IdSearch(request_memo_type) IN
    IF i = 0
    THEN ValueError
    ELSE LET task_id == SubSeq(request_memo_type, i, i + IdLenAt(request_memo_type, i) - 1)
         IN  Ok(task_id \o Sep \o response_memo_type)

extract_task_id(memo_type) ==
    IF IdMatch(memo_type) = 0
    THEN ValueError
    ELSE Ok(SubSeq(memo_type, 1, IdLenAt(memo_type, 1)))

\* re.compile(f"^{UNIQUE_ID_PATTERN_V1.pattern}__{SUFFIX}$") matches s: the
\* regex engine backtracks over the optional group to make the whole match.
MatchesIdSuffix(s, suffix) ==
    /\ StampAt(s, 1)
    /\ \/ SubSeq(s, 17, Len(s)) = Sep \o suffix
       \/ DisambAt(s, 17) /\ SubSeq(s, 23, Len(s)) = Sep \o suffix

----------------------------------------------------------------------------
(* The interaction graph: patterns in registration order *)

PatternIds ==
    <<"initiation_rite", "initiation_reward", "handshake_request", "handshake_response",
      "request_post_fiat", "proposal", "acceptance", "refusal", "task_output",
      "verification_prompt", "verification_response", "reward", "odv_request",
      "odv_response">>

PatternSuffix(p) ==
    CASE p = "initiation_rite" -> INITIATION_RITE
      [] p = "initiation_reward" -> INITIATION_REWARD
      [] p = "handshake_request" -> HANDSHAKE
      [] p = "handshake_response" -> HANDSHAKE_RESPONSE
      [] p = "request_post_fiat" -> TASK_REQUEST
      [] p = "proposal" -> PROPOSAL
      [] p = "acceptance" -> ACCEPTANCE
      [] p = "refusal" -> REFUSAL
      [] p = "task_output" -> TASK_COMPLETION
      [] p = "verification_prompt" -> VERIFICATION_PROMPT
      [] p = "verification_response" -> VERIFICATION_RESPONSE
      [] p = "reward" -> REWARD
      [] p = "odv_request" -> ODV_REQUEST
      [] p = "odv_response" -> ODV_RESPONSE

RequestPatterns ==
    {"initiation_rite", "handshake_request", "request_post_fiat", "task_output",
     "verification_response", "odv_request"}

\* The request rules whose find_response derives the response memo_type
TaskScoped == {"request_post_fiat", "task_output", "verification_response", "odv_request"}

\* The suffix of the valid response of each request pattern
ResponseSuffix(p) ==
    CASE p = "initiation_rite" -> INITIATION_REWARD
      [] p = "handshake_request" -> HANDSHAKE_RESPONSE
      [] p = "request_post_fiat" -> PROPOSAL
      [] p = "task_output" -> VERIFICATION_PROMPT
      [] p = "verification_response" -> REWARD
      [] p = "odv_request" -> ODV_RESPONSE

\* The first registered pattern the memo_type matches, "no_match" if none
classify(memo_type) ==
    IF \E k \in 1..Len(PatternIds) : MatchesIdSuffix(memo_type, PatternSuffix(PatternIds[k]))
    THEN PatternIds[CHOOSE k \in 1..Len(PatternIds) :
            /\ MatchesIdSuffix(memo_type, PatternSuffix(PatternIds[k]))
            /\ \A j \in 1..(k - 1) : ~MatchesIdSuffix(memo_type, PatternSuffix(PatternIds[j]))]
    ELSE "no_match"

----------------------------------------------------------------------------
(* Specification SpecDerive: memo_types are observed, classified, and the   *)
(* task-scoped request rules derive the memo_type of their response.       *)

Prefixes == {<<>>, VersionPrefix}
Stamps == {Stamp1, Stamp2}
Disambiguators == {<<>>, DisQQ74, DisTASK, Dislow}
Suffixes ==
    {TASK_REQUEST, TASK_COMPLETION, VERIFICATION_RESPONSE, ODV_REQUEST,
     INITIATION_RITE, HANDSHAKE, PROPOSAL, REWARD}

\* The memo_types a transaction may carry
MemoTypes ==
    {p \o s \o d \o Sep \o x : p \in Prefixes, s \in Stamps, d \in Disambiguators, x \in Suffixes}

NotDerived == [ok |-> FALSE, value |-> <<"-">>]

\* The parts of the state a specification does not use stay at these values
IdleDerive == memo = <<>> /\ pattern = "unclassified" /\ derived = NotDerived
IdlePair ==
    /\ cfg = [USE_TESTNET |-> FALSE, ENABLE_REINITIATIONS |-> FALSE]
    /\ store = {}
    /\ clock = 0
    /\ outbox = {}
    /\ sent = <<>>
    /\ workers = <<>>
IdleTask == history = <<>> /\ tasks = <<>> /\ view = <<>>
\* No construct_response yet: nothing returned, nothing raised
NoMemo ==
    [state |-> "none", flag_failed |-> FALSE, source |-> "", memo_data |-> <<>>,
     memo_type |-> <<>>, destination |-> "", pft_amount |-> 0]

IdleResponse == summary = <<>> /\ flags = {} /\ reward_memo = NoMemo
IdleTable == postfiat_tx_cache = {} /\ transaction_memos = {} /\ pft_holders = <<>>
IdleGraph == transaction_graph = <<>> /\ pattern_rule_map = <<>>
IdleDiscord == monitor = <<>> /\ _active_chats = {} /\ chat = <<>>
IdleReward == content = <<>> /\ extracted = 0 /\ IdleResponse
IdleCall == args = <<>> /\ outcome = <<>>

InitDerive ==
    /\ memo \in MemoTypes
    /\ pattern = "unclassified"
    /\ derived = NotDerived
    /\ IdlePair /\ IdleTask /\ IdleReward /\ IdleCall /\ IdleTable /\ IdleGraph /\ IdleDiscord

\* The graph classifies the observed transaction
Classify ==
    /\ pattern = "unclassified"
    /\ pattern' = classify(memo)
    /\ UNCHANGED <<memo, derived, pairVars, taskVars, rewardVars, callVars, tableVars, graphVars, discordVars>>

\* find_response of a task-scoped request rule derives the response memo_type
DeriveResponse ==
    /\ pattern \in TaskScoped
    /\ derived = NotDerived
    /\ derived' = derive_response_memo_type(memo, ResponseSuffix(pattern))
    /\ UNCHANGED <<memo, pattern, pairVars, taskVars, rewardVars, callVars, tableVars, graphVars, discordVars>>

\* The next transaction is observed
ObserveNext ==
    /\ pattern # "unclassified"
    /\ memo' \in MemoTypes
    /\ pattern' = "unclassified"
    /\ derived' = NotDerived
    /\ UNCHANGED <<pairVars, taskVars, rewardVars, callVars, tableVars, graphVars, discordVars>>

NextDerive == Classify \/ DeriveResponse \/ ObserveNext

SpecDerive == InitDerive /\ [][NextDerive]_vars

----------------------------------------------------------------------------
(* C3 *)

\* req with its trailing __REQUEST_SUFFIX replaced by __RESPONSE_SUFFIX
ReplaceSuffix(req, reqSuffix, respSuffix) ==
    SubSeq(req, 1, Len(req) - Len(reqSuffix) - 2) \o Sep \o respSuffix

\* C3: for every memo_type that matches a registered task-scoped Request
\* pattern, with or without the disambiguator, the derived response memo_type
\* is exactly the request's with the trailing request suffix replaced by the
\* response suffix, it differs from the request's, and the task_id extracted
\* from it equals the task_id extracted from the request.
C3_DerivedIsSuffixReplaced ==
    (pattern \in TaskScoped /\ derived # NotDerived) =>
        /\ derived.ok
        /\ derived.value = ReplaceSuffix(memo, PatternSuffix(pattern), ResponseSuffix(pattern))
        /\ derived.value # memo
        /\ extract_task_id(derived.value) = extract_task_id(memo)

----------------------------------------------------------------------------
(* Business rules: validate of each request rule *)

\* The authorization gate switched on
REQUIRE_AUTHORIZATION_mutant == TRUE

\* REQUIRE_AUTHORIZATION = False  # Disable for testing only
REQUIRE_AUTHORIZATION == FALSE
BASE_PFT_COST == 1
MIN_ODV_BALANCE == 2000

node_address == "rNode"
remembrancer_address == "rRemembrancer"
auto_handshake_addresses == {node_address, remembrancer_address}
Users == {"rUser"}

RiteLong == <<"I", " ", "a", "m", " ", "r", "e", "a", "d", "y">>
RiteShort == <<" ", "h", "i", " ">>
KeyGood == <<"E", "D", "0", "1">>
KeyBad == <<"z", "z">>

\* The keys credential_manager.get_shared_secret derives a secret from
ValidKeys == {KeyGood}

IsSpace(c) == c \in {" ", "\n", "\t"}

\* str.strip(): leading and trailing whitespace removed
strip(s) ==
    IF \A i \in 1..Len(s) : IsSpace(s[i])
    THEN <<>>
    ELSE LET a == CHOOSE i \in 1..Len(s) : ~IsSpace(s[i]) /\ \A j \in 1..(i - 1) : IsSpace(s[j])
             b == CHOOSE i \in 1..Len(s) : ~IsSpace(s[i]) /\ \A j \in (i + 1)..Len(s) : IsSpace(s[j])
         IN  SubSeq(s, a, b)

is_valid_initiation_rite(rite_text) ==
    /\ rite_text # <<>>
    /\ Len(strip(rite_text)) >= 10

\* The balance check that also rejects a balance of exactly 2000
balance_too_low_mutant(balance) == balance <= MIN_ODV_BALANCE

\* if balance < 2000
balance_too_low(balance) == balance < MIN_ODV_BALANCE

Valid == [valid |-> TRUE, notes |-> ""]
Invalid(notes) == [valid |-> FALSE, notes |-> notes]

\* The fee check that also rejects a fee of exactly BASE_PFT_COST
validate_task_rule_mutant(tx, authorized) ==
    IF tx.destination # node_address
    THEN Invalid("Destination is not the node address")
    ELSE IF REQUIRE_AUTHORIZATION /\ ~authorized
    THEN Invalid("Address is not authorized")
    ELSE IF tx.pft_amount <= BASE_PFT_COST
    THEN Invalid("PFT amount is less than BASE_PFT_COST")
    ELSE Valid

\* The checks shared by the three task rules: node address, minimum fee
validate_task_rule(tx, authorized) ==
    IF tx.destination # node_address
    THEN Invalid("Destination is not the node address")
    ELSE IF REQUIRE_AUTHORIZATION /\ ~authorized
    THEN Invalid("Address is not authorized")
    ELSE IF tx.pft_amount < BASE_PFT_COST
    THEN Invalid("PFT amount is less than BASE_PFT_COST")
    ELSE Valid

\* rule.validate(tx, dependencies) of the rule bound to pattern p; deps holds
\* what the collaborators answer: authorized, pft_balance
validate(p, tx, deps) ==
    CASE p = "initiation_rite" ->
            IF tx.destination # node_address
            THEN Invalid("Destination is not the node address")
            ELSE IF REQUIRE_AUTHORIZATION /\ ~deps.authorized
            THEN Invalid("Address is not authorized")
            ELSE IF ~is_valid_initiation_rite(tx.memo_data)
            THEN Invalid("Invalid initiation rite")
            ELSE Valid
      [] p = "handshake_request" ->
            IF tx.destination \notin auto_handshake_addresses
            THEN Invalid("Destination is not in auto-handshake addresses")
            ELSE IF REQUIRE_AUTHORIZATION /\ ~deps.authorized
            THEN Invalid("Address is not authorized")
            ELSE IF tx.memo_data \notin ValidKeys
            THEN Invalid("Invalid ECDH public key")
            ELSE Valid
      [] p \in {"request_post_fiat", "task_output", "verification_response"} ->
            validate_task_rule(tx, deps.authorized)
      [] p = "odv_request" ->
            IF tx.destination # remembrancer_address
            THEN Invalid("Destination is not the remembrancer address")
            ELSE IF balance_too_low(deps.pft_balance)
            THEN Invalid("PFT balance is less than 2000")
            ELSE IF REQUIRE_AUTHORIZATION /\ ~deps.authorized
            THEN Invalid("Address is not authorized")
            ELSE IF tx.pft_amount < BASE_PFT_COST
            THEN Invalid("PFT amount is less than BASE_PFT_COST")
            ELSE Valid
      [] OTHER -> Valid

----------------------------------------------------------------------------
(* The pairing queries and the SQL function that executes them *)

Percent == <<"%">>

\* InitiationRiteRule._should_require_after_request
should_require_after_request(c) == c.USE_TESTNET /\ c.ENABLE_REINITIATIONS

\* HandshakeRequestRule.find_response passes require_after_request := TRUE
HandshakeRequireAfterRequest == TRUE

\* The response_memo_type parameter of the two system rules: an SQL wildcard
\* followed by the suffix
WildcardMemoType(suffix) == Percent \o suffix

\* The response_memo_type parameter each rule's find_response builds
response_memo_type_param(p, request_tx) ==
    IF p \in {"initiation_rite", "handshake_request"}
    THEN Ok(WildcardMemoType(ResponseSuffix(p)))
    ELSE derive_response_memo_type(request_tx.memo_type, ResponseSuffix(p))

\* The require_after_request parameter each rule's find_response builds
require_after_request_param(p, c) ==
    CASE p = "initiation_rite" -> should_require_after_request(c)
      [] p = "handshake_request" -> HandshakeRequireAfterRequest
      [] OTHER -> TRUE

\* The column the query text orders the rows of the function by, outside
\* the function ("" when the text has no ORDER BY of its own)
outer_order_by(p) == IF p = "odv_request" THEN "datetime" ELSE ""

\* rule.find_response(request_tx): the ResponseQuery; ok is FALSE when
\* building it raises (derive_response_memo_type)
find_response(p, request_tx, c) ==
    LET t == response_memo_type_param(p, request_tx) IN
    [ok |-> t.ok,
     account |-> request_tx.account,
     destination |-> request_tx.destination,
     request_time |-> request_tx.close_time_iso,
     response_memo_type |-> t.value,
     require_after_request |-> require_after_request_param(p, c),
     order_by |-> outer_order_by(p)]

\* The columns of the table find_transaction_response returns
FunctionColumns ==
    {"hash", "account", "destination", "memo_type", "memo_format", "memo_data",
     "transaction_result", "close_time_iso"}

\* WHERE ... AND d.memo_type = response_memo_type
MemoTypeCondition(row_memo_type, response_memo_type) == row_memo_type = response_memo_type

\* The rows that satisfy the WHERE clause of find_transaction_response
\* (response_memo_format and response_memo_data are NULL at every call site)
MatchingRows(rows, request_account, request_destination, request_time, response_memo_type, require_after_request) ==
    {d \in rows :
        /\ d.destination = request_account
        /\ d.transaction_result = "tesSUCCESS"
        /\ (~require_after_request \/ d.close_time_iso > request_time)
        /\ MemoTypeCondition(d.memo_type, response_memo_type)}

\* find_transaction_response with ORDER BY d.close_time_iso DESC
find_transaction_response_mutant(rows, request_account, request_destination, request_time, response_memo_type, require_after_request) ==
    LET m == MatchingRows(rows, request_account, request_destination, request_time,
                          response_memo_type, require_after_request)
    IN  IF m = {}
        THEN {}
        ELSE {CHOOSE d \in m : \A e \in m :
                \/ d.close_time_iso > e.close_time_iso
                \/ d.close_time_iso = e.close_time_iso /\ d.hash <= e.hash}

\* find_transaction_response: ORDER BY d.close_time_iso ASC LIMIT 1
find_transaction_response(rows, request_account, request_destination, request_time, response_memo_type, require_after_request) ==
    LET m == MatchingRows(rows, request_account, request_destination, request_time,
                          response_memo_type, require_after_request)
    IN  IF m = {}
        THEN {}
        ELSE {CHOOSE d \in m : \A e \in m :
                \/ d.close_time_iso < e.close_time_iso
                \/ d.close_time_iso = e.close_time_iso /\ d.hash <= e.hash}

\* The query executed against the projection store: the rows found, or an
\* error when the text orders by a column the function's table does not have
execute_query(q, rows) ==
    IF ~q.ok \/ (q.order_by # "" /\ q.order_by \notin FunctionColumns)
    THEN [error |-> TRUE, rows |-> {}]
    ELSE [error |-> FALSE,
          rows |-> find_transaction_response(rows, q.account, q.destination, q.request_time,
                                             q.response_memo_type, q.require_after_request)]

----------------------------------------------------------------------------
(* Response generators: the memo construct_response returns *)

\* generate_custom_id() returns a fresh unique id
CustomIds == {VersionPrefix \o Stamp2 \o DisQQ74}

\* A generator that keeps the request's suffix in the memo_type it derives
generator_memo_type_mutant(p, request_tx, custom_id) ==
    IF p \in {"initiation_rite", "handshake_request"}
    THEN Ok(custom_id \o Sep \o ResponseSuffix(p))
    ELSE derive_response_memo_type(request_tx.memo_type, PatternSuffix(p))

\* The memo_type of the response the generator of pattern p's response builds
generator_memo_type(p, request_tx, custom_id) ==
    IF p \in {"initiation_rite", "handshake_request"}
    THEN Ok(custom_id \o Sep \o ResponseSuffix(p))
    ELSE derive_response_memo_type(request_tx.memo_type, ResponseSuffix(p))

\* The address the response is sent from
generator_source(p, request_tx) ==
    CASE p = "odv_request" -> remembrancer_address
      [] p = "handshake_request" -> request_tx.destination
      [] OTHER -> node_address

----------------------------------------------------------------------------
(* Specification SpecPairing: requests reach the ledger, the node observes *)
(* them (at least once, possibly several times and concurrently), checks   *)
(* the projection store for a response and, finding none, generates and    *)
(* submits one; submitted responses reach the ledger later.                *)

MaxRequests == 1     \* requests the user submits
MaxResponses == 2    \* responses the node submits

\* Two observations are processed concurrently
WorkerIds == {1, 2}
RequestIds == {Stamp1 \o DisQQ74}

\* What the collaborators answer during validation
Deps == [authorized |-> TRUE, pft_balance |-> MIN_ODV_BALANCE]

IdleWorker == [pc |-> "idle", req |-> 0]

Row(h) == CHOOSE d \in store : d.hash = h

Requests == {d \in store : d.answers = 0}

\* A request of pattern p as its sender builds it; the bad variant fails
\* one business check of the rule
RequestTx(p, id, good, user, t) ==
    [hash |-> t,
     account |-> user,
     destination |-> IF p = "odv_request" THEN remembrancer_address ELSE node_address,
     memo_type |-> id \o Sep \o PatternSuffix(p),
     memo_data |-> CASE p = "initiation_rite" -> (IF good THEN RiteLong ELSE RiteShort)
                     [] p = "handshake_request" -> (IF good THEN KeyGood ELSE KeyBad)
                     [] OTHER -> RiteLong,
     pft_amount |-> IF good \/ p \in {"initiation_rite", "handshake_request"} THEN 1 ELSE 0,
     close_time_iso |-> t,
     transaction_result |-> "tesSUCCESS",
     answers |-> 0]

InitPairing ==
    /\ cfg \in [USE_TESTNET : BOOLEAN, ENABLE_REINITIATIONS : BOOLEAN]
    /\ store = {}
    /\ clock = 0
    /\ outbox = {}
    /\ sent = [h \in 1..(MaxRequests + MaxResponses) |-> 0]
    /\ workers = [w \in WorkerIds |-> IdleWorker]
    /\ IdleDerive /\ IdleTask /\ IdleReward /\ IdleCall /\ IdleTable /\ IdleGraph /\ IdleDiscord

\* A user's request is recorded on the ledger and becomes visible in the store
SubmitRequest(p, id, good, user) ==
    /\ Cardinality(Requests) < MaxRequests
    /\ \A d \in store : d.memo_type # id \o Sep \o PatternSuffix(p)
    /\ clock' = clock + 1
    /\ store' = store \cup {RequestTx(p, id, good, user, clock + 1)}
    /\ UNCHANGED <<cfg, outbox, sent, workers, deriveVars, taskVars, rewardVars, callVars, tableVars, graphVars, discordVars>>

\* Steps 1-3 of the flow: the transaction is received, matched to its
\* pattern, and the pattern's rule validates it; a transaction that is no
\* request, or is rejected, is dropped
Observe(w, h) ==
    /\ workers[w].pc = "idle"
    /\ \E d \in store : d.hash = h
    /\ LET tx == Row(h)
           p == classify(tx.memo_type)
       IN  /\ p \in RequestPatterns
           /\ workers' = [workers EXCEPT ![w] =
                  IF validate(p, tx, Deps).valid
                  THEN [pc |-> "validated", req |-> h]
                  ELSE IdleWorker]
    /\ UNCHANGED <<cfg, store, clock, outbox, sent, deriveVars, taskVars, rewardVars, callVars, tableVars, graphVars, discordVars>>

\* Step 4: the node checks its database for a valid response to the
\* request; the observation ends when one is found or the query fails
FindResponse(w) ==
    /\ workers[w].pc = "validated"
    /\ LET tx == Row(workers[w].req)
           r == execute_query(find_response(classify(tx.memo_type), tx, cfg), store)
       IN  workers' = [workers EXCEPT ![w] =
               IF r.error \/ r.rows # {}
               THEN IdleWorker
               ELSE [@ EXCEPT !.pc = "unfulfilled"]]
    /\ UNCHANGED <<cfg, store, clock, outbox, sent, deriveVars, taskVars, rewardVars, callVars, tableVars, graphVars, discordVars>>

\* Steps 5-7: the request is unfulfilled, the response rule's generator
\* generates a response and the node sends it; generated is FALSE when the
\* generator fails
Respond(w, generated, custom_id) ==
    /\ workers[w].pc = "unfulfilled"
    /\ LET h == workers[w].req
           tx == Row(h)
           p == classify(tx.memo_type)
           t == generator_memo_type(p, tx, custom_id)
       IN  IF generated /\ t.ok
           THEN /\ Cardinality(store \ Requests) + Cardinality(outbox) < MaxResponses
                /\ outbox' = outbox \cup
                        {[answers |-> h,
                          n |-> sent[h] + 1,
                          account |-> generator_source(p, tx),
                          destination |-> tx.account,
                          memo_type |-> t.value]}
                /\ sent' = [sent EXCEPT ![h] = @ + 1]
           ELSE UNCHANGED <<outbox, sent>>
    /\ workers' = [workers EXCEPT ![w] = IdleWorker]
    /\ UNCHANGED <<cfg, store, clock, deriveVars, taskVars, rewardVars, callVars, tableVars, graphVars, discordVars>>

\* A submitted response is recorded on the ledger, successfully or not
Record(m, result) ==
    /\ m \in outbox
    /\ outbox' = outbox \ {m}
    /\ clock' = clock + 1
    /\ store' = store \cup
            {[hash |-> clock + 1,
              account |-> m.account,
              destination |-> m.destination,
              memo_type |-> m.memo_type,
              memo_data |-> <<>>,
              pft_amount |-> 0,
              close_time_iso |-> clock + 1,
              transaction_result |-> result,
              answers |-> m.answers]}
    /\ UNCHANGED <<cfg, sent, workers, deriveVars, taskVars, rewardVars, callVars, tableVars, graphVars, discordVars>>

NextPairing ==
    \/ \E p \in RequestPatterns, id \in RequestIds, good \in BOOLEAN, user \in Users :
            SubmitRequest(p, id, good, user)
    \/ \E w \in WorkerIds, h \in 1..(MaxRequests + MaxResponses) : Observe(w, h)
    \/ \E w \in WorkerIds : FindResponse(w)
    \/ \E w \in WorkerIds, generated \in BOOLEAN, custom_id \in CustomIds :
            Respond(w, generated, custom_id)
    \/ \E m \in outbox, result \in {"tesSUCCESS", "tecUNFUNDED_PAYMENT"} : Record(m, result)

SpecPairing == InitPairing /\ [][NextPairing]_vars

----------------------------------------------------------------------------
(* C1, C2, C4, C5: the pairing protocol *)

\* The outcome of the pairing query of request r against the store
PairingResult(r) == execute_query(find_response(classify(r.memo_type), r, cfg), store)

FoundResponse(r) == ~PairingResult(r).error /\ PairingResult(r).rows # {}

\* The response the generator built for r is recorded as a successful
\* transaction to the requester, after the request
AnswerRecorded(r) ==
    \E t \in store :
        /\ t.answers = r.hash
        /\ t.transaction_result = "tesSUCCESS"
        /\ t.destination = r.account
        /\ t.close_time_iso > r.close_time_iso

\* C1: for each request archetype, once the response memo built by the
\* archetype's generator is recorded as a successful transaction to the
\* requester with a timestamp after the request, the request's find_response
\* query, executed by find_transaction_response, finds a response.
C1_RecordedResponseIsFound ==
    \A r \in Requests :
        (classify(r.memo_type) \in RequestPatterns /\ AnswerRecorded(r)) => FoundResponse(r)

\* C2: in every interleaving in which one validated request is observed
\* more than once, at most one response is submitted for it.
C2_AtMostOneResponse == \A h \in DOMAIN sent : sent[h] <= 1

\* The two cases the claim exempts from the time-ordering constraint
ExemptFromOrdering(p) ==
    \/ p = "handshake_request"
    \/ p = "initiation_rite" /\ cfg.USE_TESTNET /\ cfg.ENABLE_REINITIATIONS

\* C4: the pairing query of a request enforces 'response after request'
\* for every archetype except handshake requests and initiation rites in
\* re-initiation mode, and for exactly those two it does not.
C4_OrderingDisabledOnlyForExempt ==
    \A w \in WorkerIds :
        workers[w].pc = "unfulfilled" =>
            LET r == Row(workers[w].req)
                p == classify(r.memo_type)
            IN  find_response(p, r, cfg).require_after_request <=> ~ExemptFromOrdering(p)

EndsWith(s, suffix) ==
    /\ Len(s) >= Len(suffix)
    /\ SubSeq(s, Len(s) - Len(suffix) + 1, Len(s)) = suffix

\* C5: for an initiation rite or handshake request from account A, any
\* successful transaction to A whose memo_type ends in the response suffix
\* (and meets the time constraint of the query) is found, whatever its
\* unique id; for the task-scoped requests only a transaction whose
\* memo_type equals the derived response memo_type is found.
C5_SuffixWildcardOrExactType ==
    \A r \in Requests :
        LET p == classify(r.memo_type)
            q == find_response(p, r, cfg)
        IN  /\ p \in {"initiation_rite", "handshake_request"} =>
                \A t \in store :
                    ( /\ t.destination = r.account
                      /\ t.transaction_result = "tesSUCCESS"
                      /\ EndsWith(t.memo_type, ResponseSuffix(p))
                      /\ (q.require_after_request => t.close_time_iso > r.close_time_iso) )
                    => FoundResponse(r)
            /\ p \in TaskScoped =>
                \A t \in PairingResult(r).rows :
                    t.memo_type = derive_response_memo_type(r.memo_type, ResponseSuffix(p)).value

----------------------------------------------------------------------------
(* Task lifecycle reconstruction: Task, Task.from_memo_groups, get_tasks,  *)
(* get_proposals_by_state.                                                 *)
(* A memo group is [task, suffix, datetime, content, pft_amount]: its      *)
(* group_id is task__suffix, datetime is memos[0].datetime and content is  *)
(* what MemoProcessor.parse_group returns for it ("" when it returns       *)
(* nothing).                                                               *)

None == "None"       \* an unset text field
NoTime == 0          \* an unset datetime field; also datetime.min

\* TaskType, in declaration order
TaskTypes ==
    <<"TASK_REQUEST", "PROPOSAL", "ACCEPTANCE", "REFUSAL", "TASK_COMPLETION",
      "VERIFICATION_PROMPT", "VERIFICATION_RESPONSE", "REWARD">>

TaskTypeSet == {TaskTypes[i] : i \in 1..Len(TaskTypes)}

\* state_type.value.lower()
Lower(s) ==
    CASE s = "TASK_REQUEST" -> "task_request"
      [] s = "PROPOSAL" -> "proposal"
      [] s = "ACCEPTANCE" -> "acceptance"
      [] s = "REFUSAL" -> "refusal"
      [] s = "TASK_COMPLETION" -> "task_completion"
      [] s = "VERIFICATION_PROMPT" -> "verification_prompt"
      [] s = "VERIFICATION_RESPONSE" -> "verification_response"
      [] s = "REWARD" -> "reward"

\* The attributes of a Task: the dataclass fields, and the two attributes
\* from_memo_groups sets that the dataclass does not declare
NewTask(task_id, request, request_datetime) ==
    [task_id |-> task_id,
     task_request |-> request,
     request_datetime |-> request_datetime,
     proposal |-> None, proposal_datetime |-> NoTime,
     acceptance |-> None, acceptance_datetime |-> NoTime,
     refusal |-> None, refusal_datetime |-> NoTime,
     task_completion |-> None, task_completion_datetime |-> NoTime,
     verification_prompt |-> None, verification_prompt_datetime |-> NoTime,
     verification_response |-> None, verification_response_datetime |-> NoTime,
     reward |-> None, reward_datetime |-> NoTime,
     pft_amount |-> 0,
     completion_datetime |-> NoTime,
     reward_response_datetime |-> NoTime]

\* Python truth of an Optional[str] field
Truthy(v) == v # None /\ v # ""

\* current_state testing acceptance before every other field
current_state_mutant(task) ==
    IF Truthy(task.acceptance) THEN "ACCEPTANCE"
    ELSE IF Truthy(task.reward) THEN "REWARD"
    ELSE IF Truthy(task.verification_response) THEN "VERIFICATION_RESPONSE"
    ELSE IF Truthy(task.verification_prompt) THEN "VERIFICATION_PROMPT"
    ELSE IF Truthy(task.task_completion) THEN "TASK_COMPLETION"
    ELSE IF Truthy(task.refusal) THEN "REFUSAL"
    ELSE IF Truthy(task.proposal) THEN "PROPOSAL"
    ELSE "TASK_REQUEST"

current_state(task) ==
    IF Truthy(task.reward) THEN "REWARD"
    ELSE IF Truthy(task.verification_response) THEN "VERIFICATION_RESPONSE"
    ELSE IF Truthy(task.verification_prompt) THEN "VERIFICATION_PROMPT"
    ELSE IF Truthy(task.task_completion) THEN "TASK_COMPLETION"
    ELSE IF Truthy(task.refusal) THEN "REFUSAL"
    ELSE IF Truthy(task.acceptance) THEN "ACCEPTANCE"
    ELSE IF Truthy(task.proposal) THEN "PROPOSAL"
    ELSE "TASK_REQUEST"

\* The position of element i of seq after sorted(seq, key, reverse=True):
\* a stable sort, elements with equal keys keep their order
SortedPosition(seq, i) ==
    1 + Cardinality({j \in 1..Len(seq) : seq[j].datetime > seq[i].datetime})
      + Cardinality({j \in 1..(i - 1) : seq[j].datetime = seq[i].datetime})

\* sorted(memo_groups, key=lambda g: g.memos[0].datetime, reverse=True)
SortGroups(memo_groups) ==
    [k \in 1..Len(memo_groups) |->
        memo_groups[CHOOSE i \in 1..Len(memo_groups) : SortedPosition(memo_groups, i) = k]]

\* The match statement of from_memo_groups: the field and the datetime
\* attribute each state type sets
SetField(task, group) ==
    CASE group.suffix = "PROPOSAL" ->
            [task EXCEPT !.proposal = group.content, !.proposal_datetime = group.datetime]
      [] group.suffix = "ACCEPTANCE" ->
            [task EXCEPT !.acceptance = group.content, !.acceptance_datetime = group.datetime]
      [] group.suffix = "REFUSAL" ->
            [task EXCEPT !.refusal = group.content, !.refusal_datetime = group.datetime]
      [] group.suffix = "TASK_COMPLETION" ->
            [task EXCEPT !.task_completion = group.content, !.completion_datetime = group.datetime]
      [] group.suffix = "VERIFICATION_PROMPT" ->
            [task EXCEPT !.verification_prompt = group.content,
                         !.verification_prompt_datetime = group.datetime]
      [] group.suffix = "VERIFICATION_RESPONSE" ->
            [task EXCEPT !.verification_response = group.content,
                         !.verification_response_datetime = group.datetime]
      [] group.suffix = "REWARD" ->
            [task EXCEPT !.reward = group.content,
                         !.reward_response_datetime = group.datetime,
                         !.pft_amount = group.pft_amount]
      [] OTHER -> task

\* The loop over sorted_groups, from group k on
RECURSIVE ProcessGroups(_, _, _, _)
ProcessGroups(task, sorted_groups, request_group, k) ==
    IF k > Len(sorted_groups)
    THEN [ok |-> TRUE, task |-> task]
    ELSE LET group == sorted_groups[k] IN
         IF group = request_group \/ group.content = ""
         THEN ProcessGroups(task, sorted_groups, request_group, k + 1)
         ELSE IF group.suffix \notin TaskTypeSet
         THEN [ok |-> FALSE, task |-> task]
         ELSE ProcessGroups(SetField(task, group), sorted_groups, request_group, k + 1)

\* Task.from_memo_groups: ok is FALSE when it raises
from_memo_groups(memo_groups) ==
    LET sorted_groups == SortGroups(memo_groups)
        requests == {k \in 1..Len(sorted_groups) : sorted_groups[k].suffix = "TASK_REQUEST"}
    IN  IF requests = {}
        THEN [ok |-> FALSE, task |-> NewTask("", None, NoTime)]
        ELSE LET request_group == sorted_groups[CHOOSE k \in requests : \A j \in requests : k <= j]
             IN  IF request_group.content = ""
                 THEN [ok |-> FALSE, task |-> NewTask("", None, NoTime)]
                 ELSE ProcessGroups(
                        NewTask(request_group.task, request_group.content, request_group.datetime),
                        sorted_groups, request_group, 1)

\* get_tasks: one Task per TASK_REQUEST group of the account, built from
\* the groups of the same task; a task whose construction raises is skipped
RECURSIVE TasksFrom(_, _)
TasksFrom(groups, k) ==
    IF k > Len(groups)
    THEN <<>>
    ELSE IF groups[k].suffix # "TASK_REQUEST"
    THEN TasksFrom(groups, k + 1)
    ELSE LET memo_groups == SelectSeq(groups, LAMBDA g : g.task = groups[k].task)
             built == from_memo_groups(memo_groups)
         IN  (IF built.ok THEN <<built.task>> ELSE <<>>) \o TasksFrom(groups, k + 1)

get_tasks(groups) == TasksFrom(groups, 1)

\* The attributes getattr finds: f"{state}_datetime" of TASK_REQUEST is not one
HasDatetimeAttr(state_type) == state_type # "TASK_REQUEST"

\* getattr(t, f"{state_type.value.lower()}_datetime") or datetime.min
SortKey(task, state_type) ==
    CASE state_type = "PROPOSAL" -> task.proposal_datetime
      [] state_type = "ACCEPTANCE" -> task.acceptance_datetime
      [] state_type = "REFUSAL" -> task.refusal_datetime
      [] state_type = "TASK_COMPLETION" -> task.task_completion_datetime
      [] state_type = "VERIFICATION_PROMPT" -> task.verification_prompt_datetime
      [] state_type = "VERIFICATION_RESPONSE" -> task.verification_response_datetime
      [] state_type = "REWARD" -> task.reward_datetime

\* The text field a view shows next to the proposal
StateField(task, state_type) ==
    CASE state_type = "PROPOSAL" -> task.proposal
      [] state_type = "ACCEPTANCE" -> task.acceptance
      [] state_type = "REFUSAL" -> task.refusal
      [] state_type = "TASK_COMPLETION" -> task.task_completion
      [] state_type = "VERIFICATION_PROMPT" -> task.verification_prompt
      [] state_type = "VERIFICATION_RESPONSE" -> task.verification_response
      [] state_type = "REWARD" -> task.reward
      [] OTHER -> task.task_request

\* The filter keeping every task whose field for the state is set
InState_mutant(task, state_type) == Truthy(StateField(task, state_type))

\* The filter of get_proposals_by_state
InState(task, state_type) == current_state(task) = state_type

TaskPosition(seq, state_type, i) ==
    1 + Cardinality({j \in 1..Len(seq) : SortKey(seq[j], state_type) > SortKey(seq[i], state_type)})
      + Cardinality({j \in 1..(i - 1) : SortKey(seq[j], state_type) = SortKey(seq[i], state_type)})

\* sorted(..., key=..._datetime or datetime.min, reverse=True)
SortTasks(seq, state_type) ==
    [k \in 1..Len(seq) |-> seq[CHOOSE i \in 1..Len(seq) : TaskPosition(seq, state_type, i) = k]]

\* get_proposals_by_state, from the list its call of get_tasks returned: the
\* tasks the returned DataFrame has a row for, in row order; limit 0 stands
\* for no limit. An exception (no such datetime attribute, rows and index of
\* different lengths) gives an empty DataFrame.
get_proposals_by_state(all, state_type, limit) ==
    LET filtered_tasks == SortTasks(SelectSeq(all, LAMBDA t : InState(t, state_type)), state_type)
        limited == IF limit > 0 /\ limit < Len(filtered_tasks)
                   THEN SubSeq(filtered_tasks, 1, limit)
                   ELSE filtered_tasks
        rows == SelectSeq(limited, LAMBDA t : Truthy(t.proposal) /\ Truthy(StateField(t, state_type)))
        index == SelectSeq(limited, LAMBDA t : Truthy(t.proposal))
    IN  IF ~HasDatetimeAttr(state_type) \/ Len(rows) # Len(index)
        THEN <<>>
        ELSE rows

----------------------------------------------------------------------------
(* Account histories the parser is called on, and the parser's calls.      *)

MaxStart == 2        \* a task's request is dated 1..MaxStart
MaxLimit == 1        \* limit is 0 (none) or 1..MaxLimit

TaskIds == <<"T1", "T2">>

\* How far a task got: the memo types its history holds, oldest first
Lifecycles ==
    {<<"TASK_REQUEST">>,
     <<"TASK_REQUEST", "PROPOSAL">>,
     <<"TASK_REQUEST", "PROPOSAL", "ACCEPTANCE">>,
     <<"TASK_REQUEST", "PROPOSAL", "REFUSAL">>,
     <<"TASK_REQUEST", "PROPOSAL", "ACCEPTANCE", "REFUSAL">>,
     <<"TASK_REQUEST", "ACCEPTANCE">>,
     <<"TASK_REQUEST", "PROPOSAL", "ACCEPTANCE", "TASK_COMPLETION">>,
     <<"TASK_REQUEST", "PROPOSAL", "ACCEPTANCE", "TASK_COMPLETION", "VERIFICATION_PROMPT">>,
     <<"TASK_REQUEST", "PROPOSAL", "ACCEPTANCE", "TASK_COMPLETION", "VERIFICATION_PROMPT",
       "VERIFICATION_RESPONSE">>,
     <<"TASK_REQUEST", "PROPOSAL", "ACCEPTANCE", "TASK_COMPLETION", "VERIFICATION_PROMPT",
       "VERIFICATION_RESPONSE", "REWARD">>}

\* Any set of lifecycle memo types after the request, in TaskType order
AnyLifecycles ==
    {SelectSeq(TaskTypes, LAMBDA s : s = "TASK_REQUEST" \/ s \in F) :
        F \in SUBSET (TaskTypeSet \ {"TASK_REQUEST"})}

\* One memo group per memo type, dated one after the other from start on
LifecycleGroups(task, lifecycle, start) ==
    [k \in 1..Len(lifecycle) |->
        [task |-> task, suffix |-> lifecycle[k], datetime |-> start + k - 1,
         content |-> "first", pft_amount |-> 10]]

\* One more memo group of the first task: a second transaction of a memo
\* type, or a memo type that is no TaskType, dated with the request or after
\* every other group, with content the processor can or cannot parse
ExtraGroups ==
    {[task |-> TaskIds[1], suffix |-> s, datetime |-> d, content |-> c, pft_amount |-> 20] :
        s \in TaskTypeSet \cup {"OTHER"},
        d \in {1, MaxStart + Len(TaskTypes)}, c \in {"", "second"}}

ExtraChoices == {<<>>} \cup {<<g>> : g \in ExtraGroups}

StateTypes == {"PROPOSAL", "ACCEPTANCE", "VERIFICATION_PROMPT", "REWARD", "REFUSAL"}

\* Two tasks, each somewhere in its lifecycle
InitTasks ==
    /\ \E l1 \in Lifecycles, l2 \in Lifecycles, s1 \in 1..MaxStart, s2 \in 1..MaxStart :
          history = LifecycleGroups(TaskIds[1], l1, s1) \o LifecycleGroups(TaskIds[2], l2, s2)
    /\ tasks = <<>>
    /\ view = <<>>
    /\ IdleDerive /\ IdlePair /\ IdleReward /\ IdleCall /\ IdleTable /\ IdleGraph /\ IdleDiscord

\* One task with any set of lifecycle fields, and at most one more group
InitTaskState ==
    /\ \E l \in AnyLifecycles, s \in 1..MaxStart, extra \in ExtraChoices :
          history = LifecycleGroups(TaskIds[1], l, s) \o extra
    /\ tasks = <<>>
    /\ view = <<>>
    /\ IdleDerive /\ IdlePair /\ IdleReward /\ IdleCall /\ IdleTable /\ IdleGraph /\ IdleDiscord

\* UserTaskParser.get_tasks(account)
GetTasks ==
    /\ tasks' = get_tasks(history)
    /\ UNCHANGED <<history, view, deriveVars, pairVars, rewardVars, callVars, tableVars, graphVars, discordVars>>

\* UserTaskParser.get_proposals_by_state(account, state_type, limit), the
\* call behind get_pending_tasks, get_accepted_tasks, get_verification_tasks,
\* get_rewarded_tasks and get_refused_tasks
GetProposalsByState(state_type, limit) ==
    /\ tasks' = get_tasks(history)
    /\ view' = <<[state_type |-> state_type, limit |-> limit,
                  rows |-> get_proposals_by_state(tasks', state_type, limit)]>>
    /\ UNCHANGED <<history, deriveVars, pairVars, rewardVars, callVars, tableVars, graphVars, discordVars>>

NextTasks ==
    \/ GetTasks
    \/ \E state_type \in StateTypes, limit \in 0..MaxLimit : GetProposalsByState(state_type, limit)

SpecTasks == InitTasks /\ [][NextTasks]_vars

SpecTaskState == InitTaskState /\ [][GetTasks]_vars

----------------------------------------------------------------------------
(* Claims about the reconstructed tasks and the state-filtered views.      *)

\* The order of precedence the lifecycle fields are tested in
Precedence ==
    <<"REWARD", "VERIFICATION_RESPONSE", "VERIFICATION_PROMPT", "TASK_COMPLETION",
      "REFUSAL", "ACCEPTANCE", "PROPOSAL">>

Populated(task, state_type) == StateField(task, state_type) \notin {None, ""}

FirstPopulated(task) ==
    LET populated == {k \in 1..Len(Precedence) : Populated(task, Precedence[k])}
    IN  IF populated = {}
        THEN "TASK_REQUEST"
        ELSE Precedence[CHOOSE k \in populated : \A j \in populated : k <= j]

\* C6: the current state of every reconstructed task is the first populated
\* field in the order reward, verification_response, verification_prompt,
\* task_completion, refusal, acceptance, proposal, and TASK_REQUEST when none
\* of them is populated.
C6_CurrentStateIsFirstPopulated ==
    \A i \in 1..Len(tasks) : current_state(tasks[i]) = FirstPopulated(tasks[i])

\* A task with request, proposal, acceptance and reward only, in state REWARD
C6_Witness ==
    \E i \in 1..Len(tasks) :
        /\ {s \in TaskTypeSet \ {"TASK_REQUEST"} : Populated(tasks[i], s)}
              = {"PROPOSAL", "ACCEPTANCE", "REWARD"}
        /\ current_state(tasks[i]) = "REWARD"

\* The parsable memo groups of the history that map to one field of one task
FieldGroups(task_id, state_type) ==
    {k \in 1..Len(history) :
        /\ history[k].task = task_id
        /\ history[k].suffix = state_type
        /\ history[k].content # ""}

\* The timestamp a task keeps for a field, under whichever attribute
FieldTime(task, state_type) ==
    CASE state_type = "TASK_REQUEST" -> task.request_datetime
      [] state_type = "TASK_COMPLETION" -> task.completion_datetime
      [] state_type = "REWARD" -> task.reward_response_datetime
      [] OTHER -> SortKey(task, state_type)

\* C7: when the history holds several transactions for one lifecycle field
\* of a task, the reconstructed task holds in that field the content and the
\* timestamp of the one with the latest timestamp.
C7_LatestWinsPerField ==
    \A i \in 1..Len(tasks) : \A s \in TaskTypeSet :
        LET gs == FieldGroups(tasks[i].task_id, s) IN
        gs # {} =>
            \E k \in gs :
                /\ \A j \in gs : history[j].datetime <= history[k].datetime
                /\ StateField(tasks[i], s) = history[k].content
                /\ FieldTime(tasks[i], s) = history[k].datetime

PrecedenceRank(state_type) == CHOOSE k \in 1..Len(Precedence) : Precedence[k] = state_type

\* The task is in state_type and has not advanced past it
ExactlyIn(task, state_type) ==
    /\ Populated(task, state_type)
    /\ \A k \in 1..(PrecedenceRank(state_type) - 1) : ~Populated(task, Precedence[k])

\* C8: a state-filtered view for state S contains a task only if S is the
\* task's state under the precedence order; a task that has advanced past S
\* is not returned.
C8_ViewHoldsOnlyTasksInState ==
    \A c \in 1..Len(view) : \A i \in 1..Len(view[c].rows) :
        ExactlyIn(view[c].rows[i], view[c].state_type)

\* A view that returned a task while another task has advanced past its state
C8_Witness ==
    \E c \in 1..Len(view) :
        /\ Len(view[c].rows) > 0
        /\ \E i \in 1..Len(tasks) :
              /\ Populated(tasks[i], view[c].state_type)
              /\ ~ExactlyIn(tasks[i], view[c].state_type)

Min(a, b) == IF a < b THEN a ELSE b

\* C9: for a limit N > 0, the view for state S holds the N tasks in state S
\* whose S-field timestamps are the most recent, by that timestamp descending.
C9_MostRecentByStateTimestamp ==
    \A c \in 1..Len(view) :
        LET s == view[c].state_type
            rows == view[c].rows
            inS == {i \in 1..Len(tasks) : ExactlyIn(tasks[i], s)}
            returned == {i \in inS : \E r \in 1..Len(rows) : rows[r] = tasks[i]}
        IN  view[c].limit > 0 =>
              /\ Len(rows) = Min(view[c].limit, Cardinality(inS))
              /\ \A r \in 1..Len(rows) : \E i \in inS : rows[r] = tasks[i]
              /\ \A q, r \in 1..Len(rows) :
                    q < r => FieldTime(rows[q], s) >= FieldTime(rows[r], s)
              /\ \A i \in inS \ returned : \A r \in 1..Len(rows) :
                    FieldTime(tasks[i], s) <= FieldTime(rows[r], s)

----------------------------------------------------------------------------
(* RewardResponseGenerator._extract_pft_reward.                            *)
(* The reasoning output is a sequence of characters in which the text      *)
(* '| Total PFT Rewarded |' is one element.                                *)

MIN_REWARD_AMOUNT == 1
MAX_REWARD_AMOUNT == 1200

Marker == "| Total PFT Rewarded |"

Digits == <<"0", "1", "2", "3", "4", "5", "6", "7", "8", "9">>

IsDigitChar(c) == \E d \in 1..Len(Digits) : Digits[d] = c

DigitValue(c) == (CHOOSE d \in 1..Len(Digits) : Digits[d] = c) - 1

\* content.split('| Total PFT Rewarded |')[-1:][0]: what follows the last
\* marker, the whole content when there is none
LastSegment(s) ==
    LET markers == {i \in 1..Len(s) : s[i] = Marker}
    IN  IF markers = {}
        THEN s
        ELSE SubSeq(s, (CHOOSE i \in markers : \A j \in markers : j <= i) + 1, Len(s))

\* .replace('|', '')
RemovePipes(s) == SelectSeq(s, LAMBDA c : c # "|")

\* The value of a run of decimal digits
RECURSIVE DecimalValue(_)
DecimalValue(s) ==
    IF s = <<>> THEN 0 ELSE 10 * DecimalValue(SubSeq(s, 1, Len(s) - 1)) + DigitValue(s[Len(s)])

\* int(text): an optional sign and decimal digits; anything else raises
int(text) ==
    LET negative == text # <<>> /\ text[1] = "-"
        digits == IF negative THEN SubSeq(text, 2, Len(text)) ELSE text
    IN  IF digits # <<>> /\ \A i \in 1..Len(digits) : IsDigitChar(digits[i])
        THEN [ok |-> TRUE,
              value |-> IF negative THEN 0 - DecimalValue(digits) ELSE DecimalValue(digits)]
        ELSE [ok |-> FALSE, value |-> 0]

abs(n) == IF n < 0 THEN 0 - n ELSE n

\* The clamp without its upper bound
ClampReward_mutant(reward) ==
    IF abs(reward) > MIN_REWARD_AMOUNT THEN abs(reward) ELSE MIN_REWARD_AMOUNT

\* min(max(abs(reward), MIN_REWARD_AMOUNT), MAX_REWARD_AMOUNT)
ClampReward(reward) ==
    LET floored == IF abs(reward) > MIN_REWARD_AMOUNT THEN abs(reward) ELSE MIN_REWARD_AMOUNT
    IN  IF floored < MAX_REWARD_AMOUNT THEN floored ELSE MAX_REWARD_AMOUNT

_extract_pft_reward(text) ==
    LET reward == int(strip(RemovePipes(LastSegment(text))))
    IN  IF reward.ok THEN ClampReward(reward.value) ELSE MIN_REWARD_AMOUNT

MaxBefore == 1       \* characters of the output before the reward row
MaxAfter == 2        \* characters of the output after the reward row

TextChars == {"x", " ", "|", "7", Marker}

TextsUpTo(n) == UNION {[1..k -> TextChars] : k \in 0..n}

Amounts ==
    {<<"0">>, <<"7">>, <<"5", "0">>, <<"1", "2", "0", "0">>, <<"1", "2", "0", "1">>,
     <<"5", "0", "0", "0">>}

\* '| Total PFT Rewarded | n |' with or without the spaces around n, or no
\* such row
RewardRows ==
    {<<>>} \cup
    {<<Marker>> \o pad \o sign \o amount \o pad \o <<"|">> :
        pad \in {<<>>, <<" ">>}, sign \in {<<>>, <<"-">>}, amount \in Amounts}

InitReward ==
    /\ \E before \in TextsUpTo(MaxBefore), row \in RewardRows, after \in TextsUpTo(MaxAfter) :
          content = before \o row \o after
    /\ extracted = 0
    /\ IdleResponse
    /\ IdleDerive /\ IdlePair /\ IdleTask /\ IdleCall /\ IdleTable /\ IdleGraph /\ IdleDiscord

\* construct_response extracting the reward from the reasoning output
ExtractReward ==
    /\ extracted' = _extract_pft_reward(content)
    /\ UNCHANGED <<content, summary, flags, reward_memo, deriveVars, pairVars, taskVars, callVars, tableVars, graphVars, discordVars>>

SpecReward == InitReward /\ [][ExtractReward]_vars

----------------------------------------------------------------------------
(* Claims about the reward extraction.                                     *)

\* The integers n for which the output holds the marker followed by n and a
\* closing '|', spaces allowed around n
RECURSIVE SkipSpaces(_, _)
SkipSpaces(s, i) == IF i <= Len(s) /\ s[i] = " " THEN SkipSpaces(s, i + 1) ELSE i

RECURSIVE SkipDigits(_, _)
SkipDigits(s, i) == IF i <= Len(s) /\ IsDigitChar(s[i]) THEN SkipDigits(s, i + 1) ELSE i

MarkedIntegers(s) ==
    {int(SubSeq(s, SkipSpaces(s, m + 1), e - 1)).value :
        <<m, e>> \in {<<m, e>> \in (1..Len(s)) \X (1..Len(s)) :
            /\ s[m] = Marker
            /\ LET start == SkipSpaces(s, m + 1)
                   first == IF start <= Len(s) /\ s[start] = "-" THEN start + 1 ELSE start
               IN  /\ SkipDigits(s, first) > first
                   /\ e = SkipDigits(s, first)
                   /\ SkipSpaces(s, e) <= Len(s)
                   /\ s[SkipSpaces(s, e)] = "|"}}

HasMarker(s) == \E i \in 1..Len(s) : s[i] = Marker

Max(a, b) == IF a > b THEN a ELSE b

\* min(max(|n|, 1), 1200)
ExpectedReward(n) == Min(Max(IF n < 0 THEN 0 - n ELSE n, 1), 1200)

\* C10: for an output holding the marker followed by an integer n and a
\* closing '|', whatever precedes or follows, the extracted reward is
\* min(max(|n|, 1), 1200); for an output without the marker it is 1.
C10_ExtractedRewardIsClamped ==
    extracted # 0 =>
        /\ MarkedIntegers(content) # {} =>
              \E n \in MarkedIntegers(content) : extracted = ExpectedReward(n)
        /\ ~HasMarker(content) => extracted = 1

----------------------------------------------------------------------------
(* RewardResponseGenerator: from the reasoning output to the reward memo.  *)
(* In the reasoning output the texts '| Summary Judgment |', 'RED FLAG'    *)
(* and 'YELLOW FLAG' are one element each.                                 *)

SummaryMarker == "| Summary Judgment |"
RED_FLAG == "RED FLAG"
YELLOW_FLAG == "YELLOW FLAG"

node_name == "node"

\* needle in text, for a needle that is one element
Contains(text, needle) == \E i \in 1..Len(text) : text[i] = needle

\* text.split(marker)[-1:][0]
AfterLast(text, marker) ==
    LET markers == {i \in 1..Len(text) : text[i] = marker}
    IN  IF markers = {}
        THEN text
        ELSE SubSeq(text, (CHOOSE i \in markers : \A j \in markers : j <= i) + 1, Len(text))

RewardMarker == "| Reward |"
JustificationMarker == "| Justification |"

\* The elements whose first character is '|'
StartsWithPipe(c) == c \in {"|", Marker, SummaryMarker, RewardMarker, JustificationMarker}

\* text.split('|')[0]
UpToPipe(text) ==
    LET pipes == {i \in 1..Len(text) : StartsWithPipe(text[i])}
    IN  IF pipes = {}
        THEN text
        ELSE SubSeq(text, 1, (CHOOSE i \in pipes : \A j \in pipes : i <= j) - 1)

_extract_summary_judgement(text) == strip(UpToPipe(AfterLast(text, SummaryMarker)))

\* The verification response the reward answers
RewardRequest ==
    [account |-> "rUser", memo_type |-> Stamp1 \o DisQQ74 \o Sep \o VERIFICATION_RESPONSE]

\* The flag check that flags nothing for YELLOW FLAG
FlagFor_mutant(text) == IF Contains(text, RED_FLAG) THEN "RED" ELSE "NONE"

\* if 'RED FLAG' in summary ... elif 'YELLOW FLAG' in summary ...
FlagFor(text) ==
    IF Contains(text, RED_FLAG) THEN "RED"
    ELSE IF Contains(text, YELLOW_FLAG) THEN "YELLOW"
    ELSE "NONE"

MaxSummary == 2      \* elements of the summary judgment

SummaryChars == {"x", " ", RED_FLAG, YELLOW_FLAG}

\* '| Summary Judgment | text |', or no such row
SummaryRows ==
    {<<>>} \cup
    {<<SummaryMarker>> \o text \o <<"|">> :
        text \in UNION {[1..k -> SummaryChars] : k \in 0..MaxSummary}}

\* What the output holds after the two rows
Trailers == {<<>>, <<"x">>, <<RED_FLAG>>}

InitRewardResponse ==
    /\ \E row \in SummaryRows, reward \in RewardRows, trailer \in Trailers :
          content = row \o reward \o trailer
    /\ extracted = 0
    /\ IdleResponse
    /\ IdleDerive /\ IdlePair /\ IdleTask /\ IdleCall /\ IdleTable /\ IdleGraph /\ IdleDiscord

\* evaluate_request, from the reasoning output on
EvaluateRequest ==
    /\ extracted = 0
    /\ extracted' = _extract_pft_reward(content)
    /\ summary' = _extract_summary_judgement(content)
    /\ UNCHANGED <<content, flags, reward_memo, deriveVars, pairVars, taskVars, callVars, tableVars, graphVars, discordVars>>

\* construct_response(request_tx, evaluation_result); flag_ok tells whether
\* transaction_repository.flag_address returns or raises
ConstructResponse(flag_ok) ==
    /\ extracted # 0
    /\ LET flag_type == FlagFor(summary)
           response_memo_type == derive_response_memo_type(RewardRequest.memo_type, REWARD)
       IN  IF flag_type # "NONE" /\ ~flag_ok
           THEN /\ reward_memo' = [NoMemo EXCEPT !.state = "raised", !.flag_failed = TRUE]
                /\ UNCHANGED flags
           ELSE /\ flags' = IF flag_type = "NONE"
                            THEN flags
                            ELSE flags \cup {[address |-> RewardRequest.account,
                                              flag_type |-> flag_type]}
                /\ reward_memo' =
                      IF response_memo_type.ok
                      THEN [state |-> "returned", flag_failed |-> FALSE,
                            source |-> node_name,
                            memo_data |-> summary,
                            memo_type |-> response_memo_type.value,
                            destination |-> RewardRequest.account,
                            pft_amount |-> extracted]
                      ELSE [NoMemo EXCEPT !.state = "raised"]
    /\ UNCHANGED <<content, extracted, summary, deriveVars, pairVars, taskVars, callVars, tableVars, graphVars, discordVars>>

NextRewardResponse ==
    \/ EvaluateRequest
    \/ \E flag_ok \in BOOLEAN : ConstructResponse(flag_ok)

SpecRewardResponse == InitRewardResponse /\ [][NextRewardResponse]_vars

----------------------------------------------------------------------------
(* Claims about the reward memo.                                           *)

\* C11: every reward memo the generator returns carries an amount between 1
\* and 1200 inclusive, whatever the reasoning output.
C11_RewardAmountWithinBounds ==
    reward_memo.state = "returned" =>
        reward_memo.pft_amount >= 1 /\ reward_memo.pft_amount <= 1200

\* A memo returned for an output that names 5000, carrying 1200
C11_Witness ==
    /\ reward_memo.state = "returned"
    /\ MarkedIntegers(content) = {5000}
    /\ reward_memo.pft_amount = 1200

Flagged(level) == [address |-> RewardRequest.account, flag_type |-> level] \in flags

\* C12: when a memo is returned for a summary containing 'RED FLAG' the
\* sender has been flagged RED, when the summary contains 'YELLOW FLAG' the
\* sender has been flagged YELLOW, and no memo is returned when the flag call
\* fails.
C12_FlaggedBeforeMemo ==
    /\ reward_memo.state = "returned" =>
          /\ Contains(reward_memo.memo_data, RED_FLAG) => Flagged("RED")
          /\ Contains(reward_memo.memo_data, YELLOW_FLAG) => Flagged("YELLOW")
    /\ reward_memo.flag_failed => reward_memo.state # "returned"

\* C12, amended: a summary containing 'YELLOW FLAG' has the sender flagged
\* YELLOW only when it does not also contain 'RED FLAG'.
C12_FlaggedBeforeMemoAmended ==
    /\ reward_memo.state = "returned" =>
          /\ Contains(reward_memo.memo_data, RED_FLAG) => Flagged("RED")
          /\ (Contains(reward_memo.memo_data, YELLOW_FLAG)
                /\ ~Contains(reward_memo.memo_data, RED_FLAG)) => Flagged("YELLOW")
    /\ reward_memo.flag_failed => reward_memo.state # "returned"

\* A memo returned for a summary with 'YELLOW FLAG' and no 'RED FLAG', the
\* sender flagged YELLOW and not RED
C12_Witness ==
    /\ reward_memo.state = "returned"
    /\ Contains(reward_memo.memo_data, YELLOW_FLAG)
    /\ ~Contains(reward_memo.memo_data, RED_FLAG)
    /\ Flagged("YELLOW")
    /\ ~Flagged("RED")

----------------------------------------------------------------------------
(* InitiationRewardGenerator.evaluate_request, from the reasoning output   *)
(* on. The texts '| Reward |' and '| Justification |' are one element each.*)

\* ok is FALSE when evaluate_request raises
Raised == [ok |-> FALSE, reward |-> 0, justification |-> <<>>]

initiation_evaluate_request(text) ==
    LET reward == int(strip(RemovePipes(AfterLast(text, RewardMarker))))
        justification == strip(UpToPipe(AfterLast(text, JustificationMarker)))
    IN  IF ~reward.ok
        THEN Raised
        ELSE [ok |-> TRUE, reward |-> reward.value, justification |-> justification]

\* '| Justification | text |' with or without the closing '|', or no such row
JustificationRows ==
    {<<>>} \cup
    {<<JustificationMarker>> \o text \o close :
        text \in {<<>>, <<"x">>, <<" ", "x", " ">>}, close \in {<<>>, <<"|">>}}

\* '| Reward | n |' with or without the spaces and the closing '|', or no
\* such row
InitiationRewardRows ==
    {<<>>} \cup
    {<<RewardMarker>> \o pad \o sign \o amount \o pad \o close :
        pad \in {<<>>, <<" ">>}, sign \in {<<>>, <<"-">>},
        amount \in {<<"7">>, <<"5", "0">>}, close \in {<<>>, <<"|">>}}

InitInitiationReward ==
    /\ \E j \in JustificationRows, r \in InitiationRewardRows, after \in TextsUpTo(MaxAfter),
          reward_first \in BOOLEAN :
          args = (IF reward_first THEN r \o j ELSE j \o r) \o after
    /\ outcome = <<>>
    /\ IdleDerive /\ IdlePair /\ IdleTask /\ IdleReward /\ IdleTable /\ IdleGraph /\ IdleDiscord

\* InitiationRewardGenerator.evaluate_request
InitiationEvaluate ==
    /\ outcome' = <<initiation_evaluate_request(args)>>
    /\ UNCHANGED <<args, deriveVars, pairVars, taskVars, rewardVars, tableVars, graphVars, discordVars>>

SpecInitiationReward == InitInitiationReward /\ [][InitiationEvaluate]_vars

\* The integers n for which the text holds the marker followed by n and the
\* next '|', spaces allowed around n
IntegersAfter(s, marker) ==
    {int(SubSeq(s, SkipSpaces(s, m + 1), e - 1)).value :
        <<m, e>> \in {<<m, e>> \in (1..Len(s)) \X (1..Len(s)) :
            /\ s[m] = marker
            /\ LET start == SkipSpaces(s, m + 1)
                   first == IF start <= Len(s) /\ s[start] = "-" THEN start + 1 ELSE start
               IN  /\ SkipDigits(s, first) > first
                   /\ e = SkipDigits(s, first)
                   /\ SkipSpaces(s, e) <= Len(s)
                   /\ StartsWithPipe(s[SkipSpaces(s, e)])}}

\* The texts that follow the marker up to the next '|', without the spaces
\* around them
TextsAfter(s, marker) ==
    {strip(SubSeq(s, m + 1, e - 1)) :
        <<m, e>> \in {<<m, e>> \in (1..Len(s)) \X (1..Len(s)) :
            /\ s[m] = marker
            /\ e > m
            /\ StartsWithPipe(s[e])
            /\ \A k \in (m + 1)..(e - 1) : ~StartsWithPipe(s[k])}}

\* C13: evaluate_request raises whenever the reasoning output lacks the
\* '| Reward |' marker or the '| Justification |' marker; when the output has
\* both, each followed by its value and the next '|', it returns that integer
\* and that text.
C13_MissingMarkerRaises ==
    \A i \in 1..Len(outcome) :
        /\ (~Contains(args, RewardMarker) \/ ~Contains(args, JustificationMarker))
              => ~outcome[i].ok
        /\ (IntegersAfter(args, RewardMarker) # {} /\ TextsAfter(args, JustificationMarker) # {})
              => /\ outcome[i].ok
                 /\ outcome[i].reward \in IntegersAfter(args, RewardMarker)
                 /\ outcome[i].justification \in TextsAfter(args, JustificationMarker)

----------------------------------------------------------------------------
(* ODVResponseGenerator.construct_response.                                *)
(* args is [request_tx, odv_response, handshake, secret]: handshake is     *)
(* what get_handshake_for_address does for the request (it raises, or it  *)
(* returns the pair of keys, a missing key being ""), secret what          *)
(* get_shared_secret does. In memo_data '[Decrypted]' is one element.      *)

Decrypted == "[Decrypted]"

remembrancer_name == "remembrancer"

\* An exception of class kind; cause is the exception its message quotes
Raise(kind, cause) == [kind |-> kind, cause |-> cause, memo |-> <<>>]

Return(params) == [kind |-> "returned", cause |-> "", memo |-> <<params>>]

\* MessageEncryption.encrypt_message(message, shared_secret)
encrypt_message(message, shared_secret) ==
    [encrypted |-> TRUE, message |-> message, shared_secret |-> shared_secret]

\* A reply that was not encrypted
Plaintext(message) == [encrypted |-> FALSE, message |-> message, shared_secret |-> ""]

\* The body with the encryption of the reply left out
odv_construct_body_mutant(a) ==
    LET was_encrypted == Contains(a.request_tx.memo_data, Decrypted)
        response_memo_type == derive_response_memo_type(a.request_tx.memo_type, ODV_RESPONSE)
    IN  IF was_encrypted /\ a.handshake.raises
        THEN Raise("Exception", "")
        ELSE IF was_encrypted /\ (a.handshake.channel_key = "" \/ a.handshake.counterparty_key = "")
        THEN Raise("HandshakeRequiredException", "")
        ELSE IF was_encrypted /\ a.secret = "raises"
        THEN Raise("Exception", "")
        ELSE IF ~response_memo_type.ok
        THEN Raise("ValueError", "")
        ELSE Return([source |-> remembrancer_name,
                     destination |-> a.request_tx.account,
                     memo_data |-> Plaintext(a.odv_response),
                     memo_type |-> response_memo_type.value,
                     should_encrypt |-> was_encrypted,
                     should_compress |-> TRUE])

\* The body of the try block: the memo, or the exception raised in it
odv_construct_body(a) ==
    LET was_encrypted == Contains(a.request_tx.memo_data, Decrypted)
        response_memo_type == derive_response_memo_type(a.request_tx.memo_type, ODV_RESPONSE)
    IN  IF was_encrypted /\ a.handshake.raises
        THEN Raise("Exception", "")
        ELSE IF was_encrypted /\ (a.handshake.channel_key = "" \/ a.handshake.counterparty_key = "")
        THEN Raise("HandshakeRequiredException", "")
        ELSE IF was_encrypted /\ a.secret = "raises"
        THEN Raise("Exception", "")
        ELSE IF ~response_memo_type.ok
        THEN Raise("ValueError", "")
        ELSE Return([source |-> remembrancer_name,
                     destination |-> a.request_tx.account,
                     memo_data |-> IF was_encrypted
                                  THEN encrypt_message(a.odv_response, a.secret)
                                  ELSE Plaintext(a.odv_response),
                     memo_type |-> response_memo_type.value,
                     should_encrypt |-> was_encrypted,
                     should_compress |-> TRUE])

\* except Exception as e: raise Exception(f"Failed to construct ODV response: {e}")
odv_except(body) ==
    IF body.kind = "returned" THEN body ELSE Raise("Exception", body.kind)

odv_construct_response(a) == odv_except(odv_construct_body(a))

Handshakes ==
    {[raises |-> TRUE, channel_key |-> "", counterparty_key |-> ""]}
        \cup [raises : {FALSE}, channel_key : {"", "kc"}, counterparty_key : {"", "ku"}]

OdvRequests ==
    [account : {"rUser", "rOther"},
     destination : {remembrancer_address},
     memo_type : {Stamp1 \o DisQQ74 \o Sep \o ODV_REQUEST, Stamp1 \o Sep \o ODV_REQUEST},
     memo_data : {<<"x">>, <<Decrypted, "x">>}]

InitOdvResponse ==
    /\ args \in [request_tx : OdvRequests,
                 odv_response : {<<"a">>, <<"b">>},
                 handshake : Handshakes,
                 secret : {"ks", "raises"}]
    /\ outcome = <<>>
    /\ IdleDerive /\ IdlePair /\ IdleTask /\ IdleReward /\ IdleTable /\ IdleGraph /\ IdleDiscord

\* ODVResponseGenerator.construct_response(request_tx, evaluation_result)
OdvConstructResponse ==
    /\ outcome' = <<odv_construct_response(args)>>
    /\ UNCHANGED <<args, deriveVars, pairVars, taskVars, rewardVars, tableVars, graphVars, discordVars>>

SpecOdvResponse == InitOdvResponse /\ [][OdvConstructResponse]_vars

\* An encrypted reply is due and the key exchange is not complete
HandshakeMissing(a) ==
    /\ Contains(a.request_tx.memo_data, Decrypted)
    /\ ~a.handshake.raises
    /\ (a.handshake.channel_key = "" \/ a.handshake.counterparty_key = "")

\* C14: when the reply must be encrypted and no completed key exchange
\* exists, the error that reaches the caller is of the distinct kind
\* 'handshake required', not the kind raised for other construction errors.
C14_HandshakeRequiredIsDistinct ==
    \A i \in 1..Len(outcome) :
        HandshakeMissing(args) => outcome[i].kind = "HandshakeRequiredException"

----------------------------------------------------------------------------
(* One call of rule.validate(tx, dependencies), collaborators included.    *)
(* args is [p, tx, deps]; deps tells what the collaborators do during the  *)
(* call: the balance and the authorization they answer, and whether        *)
(* get_pft_balance, is_address_authorized or get_shared_secret fails for a *)
(* reason of its own (the store or the credentials cannot be reached).     *)

Returns(r) == [raised |-> FALSE, result |-> r]
ValidationRaises == [raised |-> TRUE, result |-> Invalid("")]

\* The destination check each rule starts with
destination_accepted(p, tx) ==
    CASE p = "handshake_request" -> tx.destination \in auto_handshake_addresses
      [] p = "odv_request" -> tx.destination = remembrancer_address
      [] OTHER -> tx.destination = node_address

rule_validate(p, tx, deps) ==
    IF ~destination_accepted(p, tx)
    THEN Returns(validate(p, tx, deps))
    ELSE CASE p = "odv_request" ->
                \* everything inside try ... except Exception
                IF deps.balance_fails
                THEN Returns(Invalid("Error validating ODV request"))
                ELSE IF balance_too_low(deps.pft_balance)
                THEN Returns(validate(p, tx, deps))
                ELSE IF REQUIRE_AUTHORIZATION /\ deps.authorization_fails
                THEN Returns(Invalid("Error validating ODV request"))
                ELSE Returns(validate(p, tx, deps))
           [] p = "handshake_request" ->
                IF REQUIRE_AUTHORIZATION /\ deps.authorization_fails
                THEN ValidationRaises
                ELSE IF REQUIRE_AUTHORIZATION /\ ~deps.authorized
                THEN Returns(validate(p, tx, deps))
                ELSE IF deps.secret_fails
                THEN Returns(Invalid("Invalid ECDH public key"))
                ELSE Returns(validate(p, tx, deps))
           [] OTHER ->
                IF REQUIRE_AUTHORIZATION /\ deps.authorization_fails
                THEN ValidationRaises
                ELSE Returns(validate(p, tx, deps))

MaxWord == 6         \* characters of one word of an initiation rite

Word(n) == [i \in 1..n |-> "a"]
Spaces(n) == [i \in 1..n |-> " "]

\* Up to two words, with whitespace before, between and after them
RiteTexts ==
    {Spaces(lead) \o Word(w1) \o Spaces(gap) \o Word(w2) \o Spaces(trail) :
        lead \in 0..1, w1 \in 0..MaxWord, gap \in 0..2, w2 \in 0..MaxWord, trail \in 0..1}

Balances == {0, MIN_ODV_BALANCE - 1, MIN_ODV_BALANCE, MIN_ODV_BALANCE + 1}

\* What the collaborators do during one call
Collaborators ==
    [authorized : BOOLEAN, pft_balance : Balances, balance_fails : BOOLEAN,
     authorization_fails : BOOLEAN, secret_fails : BOOLEAN]

Destinations == {node_address, remembrancer_address, "rOther"}

\* The memo_data a request of pattern p can carry
MemoData(p) ==
    CASE p = "initiation_rite" -> RiteTexts
      [] p = "handshake_request" -> {KeyGood, KeyBad}
      [] OTHER -> {RiteLong}

InitValidate ==
    /\ \E p \in RequestPatterns, d \in Destinations, amount \in {0, BASE_PFT_COST, BASE_PFT_COST + 1},
          deps \in Collaborators :
          \E data \in MemoData(p) :
             args = [p |-> p,
                     tx |-> [account |-> "rUser", destination |-> d, memo_data |-> data,
                             pft_amount |-> amount],
                     deps |-> deps]
    /\ outcome = <<>>
    /\ IdleDerive /\ IdlePair /\ IdleTask /\ IdleReward /\ IdleTable /\ IdleGraph /\ IdleDiscord

\* rule.validate(tx, dependencies)
Validate ==
    /\ outcome' = <<rule_validate(args.p, args.tx, args.deps)>>
    /\ UNCHANGED <<args, deriveVars, pairVars, taskVars, rewardVars, tableVars, graphVars, discordVars>>

SpecValidate == InitValidate /\ [][Validate]_vars

----------------------------------------------------------------------------
(* Claims about validation.                                                *)

\* A collaborator the call reached failed for a reason of its own
CollaboratorFailed(a) ==
    /\ destination_accepted(a.p, a.tx)
    /\ CASE a.p = "odv_request" ->
              \/ a.deps.balance_fails
              \/ /\ ~balance_too_low(a.deps.pft_balance)
                 /\ REQUIRE_AUTHORIZATION /\ a.deps.authorization_fails
         [] a.p = "handshake_request" ->
              \/ REQUIRE_AUTHORIZATION /\ a.deps.authorization_fails
              \/ /\ ~REQUIRE_AUTHORIZATION \/ a.deps.authorized
                 /\ a.tx.memo_data \in ValidKeys /\ a.deps.secret_fails
         [] OTHER -> REQUIRE_AUTHORIZATION /\ a.deps.authorization_fails

\* C15: a collaborator failure during validation never yields
\* ValidationResult(valid=False); it propagates as a failure of the call.
C15_CollaboratorFailurePropagates ==
    \A i \in 1..Len(outcome) : CollaboratorFailed(args) => outcome[i].raised

\* An ODV request to the remembrancer with the fee attached, the balance
\* known, and no authorization gate in its way
OdvWithFee(a) ==
    /\ a.p = "odv_request"
    /\ a.tx.destination = remembrancer_address
    /\ a.tx.pft_amount >= BASE_PFT_COST
    /\ ~a.deps.balance_fails
    /\ ~REQUIRE_AUTHORIZATION

\* C19: an ODV request addressed to the remembrancer with at least the
\* minimum fee (authorization gate off) is valid if and only if the sender's
\* balance is at least 2000; below it the request is rejected with a note
\* about the balance.
C19_OdvBalanceGate ==
    \A i \in 1..Len(outcome) :
        OdvWithFee(args) =>
            /\ ~outcome[i].raised
            /\ outcome[i].result.valid <=> args.deps.pft_balance >= 2000
            /\ args.deps.pft_balance < 2000 =>
                  outcome[i].result.notes = "PFT balance is less than 2000"

\* A balance of 1999 rejected with the note about the balance
C19_Witness ==
    \E i \in 1..Len(outcome) :
        /\ OdvWithFee(args)
        /\ args.deps.pft_balance = 1999
        /\ ~outcome[i].result.valid
        /\ outcome[i].result.notes = "PFT balance is less than 2000"

\* The number of characters of a text that are not whitespace
NonWhitespace(text) == Cardinality({i \in 1..Len(text) : ~IsSpace(text[i])})

\* C20: an initiation rite addressed to the node is rejected when its text
\* has fewer than 10 non-whitespace characters and accepted when it has 10 or
\* more, whitespace between words included.
C20_RiteNeedsTenNonWhitespace ==
    \A i \in 1..Len(outcome) :
        (args.p = "initiation_rite" /\ args.tx.destination = node_address
            /\ ~REQUIRE_AUTHORIZATION) =>
            /\ ~outcome[i].raised
            /\ outcome[i].result.valid <=> NonWhitespace(args.tx.memo_data) >= 10

----------------------------------------------------------------------------
(* Specification SpecClassify: a memo triple (memo_type, memo_format,       *)
(* memo_data) is observed and matched against the sixteen registered       *)
(* patterns.                                                               *)

GOOGLE_DOC_CONTEXT_LINK == <<"g", "o", "o", "g", "l", "e", "_", "d", "o", "c", "_", "c", "o", "n", "t", "e", "x", "t", "_", "l", "i", "n", "k">>

\* The pattern ids in the order of the add_pattern calls
RegisteredPatterns ==
    <<"initiation_rite", "initiation_reward", "google_doc_link", "handshake_request",
      "handshake_response", "request_post_fiat", "proposal", "acceptance", "refusal",
      "task_output", "verification_prompt", "verification_response", "reward",
      "odv_request", "odv_response", "corbanu_reward">>

\* A field a MemoPattern leaves unset constrains nothing
Unset == "<unset>"

\* The MemoPattern registered under a pattern id. Only CORBANU_REWARD_PATTERN
\* sets memo_format and memo_data; its memo_type is the bare
\* UNIQUE_ID_PATTERN_V1, without '^', suffix or '$'.
memo_pattern(p) ==
    IF p = "corbanu_reward"
    THEN [memo_type |-> "unique_id", suffix |-> <<>>,
          memo_format |-> "Corbanu", memo_data |-> "Corbanu Reward"]
    ELSE [memo_type |-> "unique_id_suffix",
          suffix |-> IF p = "google_doc_link" THEN GOOGLE_DOC_CONTEXT_LINK ELSE PatternSuffix(p),
          memo_format |-> Unset, memo_data |-> Unset]

\* The compiled memo_type regex matches from the start of the memo_type
memo_type_matches(pat, memo_type) ==
    IF pat.memo_type = "unique_id"
    THEN IdMatch(memo_type) # 0
    ELSE MatchesIdSuffix(memo_type, pat.suffix)

\* A memo matches a pattern when every field the pattern sets matches:
\* memo_type by regex, memo_format and memo_data by equality
pattern_matches(pat, tx) ==
    /\ memo_type_matches(pat, tx.memo_type)
    /\ pat.memo_format = Unset \/ pat.memo_format = tx.memo_format
    /\ pat.memo_data = Unset \/ pat.memo_data = tx.memo_data

\* The positions, in an order of registration, of the patterns a memo matches
MatchingIn(order, tx) == {k \in 1..Len(order) : pattern_matches(memo_pattern(order[k]), tx)}

\* The first pattern of an order of registration the memo matches
classify_in(order, tx) ==
    LET hits == MatchingIn(order, tx) IN
    IF hits = {} THEN "no_match"
    ELSE order[CHOOSE k \in hits : \A j \in hits : k <= j]

\* The same patterns, registered in the opposite order
Reversed(order) == [k \in 1..Len(order) |-> order[Len(order) + 1 - k]]

AllSuffixes ==
    {memo_pattern(RegisteredPatterns[k]).suffix : k \in 1..(Len(RegisteredPatterns) - 1)}

\* Memo types: an id alone, or an id followed by the suffix of a pattern
TripleMemoTypes ==
    {s \o d : s \in Stamps, d \in Disambiguators}
      \cup {s \o d \o Sep \o x : s \in Stamps, d \in Disambiguators, x \in AllSuffixes}

MemoFormats == {"Corbanu", "rUser"}
MemoDatas == {"Corbanu Reward", "some text"}

InitClassify ==
    /\ \E t \in TripleMemoTypes, f \in MemoFormats, d \in MemoDatas :
          args = [memo_type |-> t, memo_format |-> f, memo_data |-> d]
    /\ outcome = <<>>
    /\ IdleDerive /\ IdlePair /\ IdleTask /\ IdleReward /\ IdleTable /\ IdleGraph /\ IdleDiscord

\* The transaction graph classifies the memo
ClassifyTransaction ==
    /\ outcome' = <<[matching |-> {RegisteredPatterns[k] : k \in MatchingIn(RegisteredPatterns, args)},
                     pattern |-> classify_in(RegisteredPatterns, args)]>>
    /\ UNCHANGED <<args, deriveVars, pairVars, taskVars, rewardVars, tableVars, graphVars, discordVars>>

SpecClassify == InitClassify /\ [][ClassifyTransaction]_vars

\* C16: no memo triple matches more than one of the sixteen registered
\* patterns, so the pattern a memo is classified as is the same whichever
\* pattern was registered first.
C16_PatternsMutuallyExclusive ==
    \A i \in 1..Len(outcome) :
        /\ Cardinality(outcome[i].matching) <= 1
        /\ outcome[i].pattern = classify_in(Reversed(RegisteredPatterns), args)

----------------------------------------------------------------------------
(* The transaction_memos table as the response generators query it.        *)

TaskA == Stamp1 \o DisQQ74
TaskB == Stamp2

\* The text of a memo, in pieces; ".." separates a proposal from its reward
TextA == <<"task A", "..", "900">>
TextA2 == <<"task A, revised", "..", "700">>
TextB == <<"task B", "..", "50">>
PromptA == <<"question about A">>
PromptB == <<"question about B">>
CompletionText == <<"it is done">>
ResponseText == <<"here is the evidence">>
ForeignText == <<"text of a foreign memo">>

\* re.sub / str.replace of one piece of a pattern string
RemoveAll(s, piece) == SelectSeq(s, LAMBDA c : c # piece)

\* UNIQUE_ID_PATTERN_V1.pattern, one piece of a pattern string
IdRegex == "(\\d{4}-\\d{2}-\\d{2}_\\d{2}:\\d{2}(?:__[A-Z0-9]{4})?)"

\* PATTERN.memo_type.pattern of a suffix pattern: '^' id '__' SUFFIX '$'
PatternString(suffix) == <<"^", IdRegex>> \o Sep \o suffix \o <<"$">>

regex_to_sql_pattern(pattern_str) ==
    LET cleaned == RemoveAll(pattern_str, "\\s?")
        closing == {j \in 2..Len(cleaned) : cleaned[j] = ".*"}
    IN  IF Len(cleaned) >= 1 /\ cleaned[1] = ".*" /\ closing # {}
        THEN LET j == CHOOSE k \in closing : \A l \in closing : k <= l
             IN  <<"%">> \o RemoveAll(SubSeq(cleaned, 2, j - 1), "\\") \o <<"%">>
        ELSE <<"%">> \o cleaned \o <<"%">>

\* ORDER BY datetime DESC LIMIT 1
Latest(hits) == CHOOSE r \in hits : \A q \in hits : q.datetime <= r.datetime

\* ORDER BY datetime DESC
RECURSIVE Descending(_)
Descending(hits) ==
    IF hits = {} THEN <<>> ELSE <<Latest(hits)>> \o Descending(hits \ {Latest(hits)})

TxRow(memo_type, memo_data, result, datetime, account, destination, pft_amount) ==
    [memo_type |-> memo_type, memo_data |-> memo_data, transaction_result |-> result,
     datetime |-> datetime, account |-> account, destination |-> destination,
     pft_amount |-> pft_amount]

\* VerificationPromptGenerator._get_original_task_description
_get_original_task_description(rows, memo_type) ==
    LET results == {r \in rows : r.memo_type = memo_type /\ r.transaction_result = "tesSUCCESS"}
    IN  IF results = {}
        THEN [raised |-> TRUE, error |-> "No original proposal found", memo_data |-> <<>>]
        ELSE [raised |-> FALSE, error |-> "", memo_data |-> Latest(results).memo_data]

\* VerificationPromptGenerator.evaluate_request up to the call of the
\* reasoning capability: the two texts put into the user prompt
verification_evaluate_request(rows, request_tx) ==
    LET original == _get_original_task_description(rows, request_tx.memo_type)
    IN  [raised |-> original.raised, error |-> original.error,
         original_task |-> original.memo_data,
         completion_justification |-> IF original.raised THEN <<>> ELSE request_tx.memo_data]

REWARD_EVALUATION_WINDOW == 35
Now == 9

\* initial_task.split('..')[-1]
AfterLastDots(text) ==
    LET dots == {i \in 1..Len(text) : text[i] = ".."}
    IN  IF dots = {} THEN text
        ELSE SubSeq(text, (CHOOSE i \in dots : \A j \in dots : j <= i) + 1, Len(text))

NoContext ==
    [initial_task |-> <<>>, verification_prompt |-> <<>>, verification_response |-> <<>>,
     reward_history |-> <<>>, proposed_reward |-> <<>>]

\* RewardResponseGenerator._get_task_context
_get_task_context(rows, request_tx) ==
    LET proposal_results ==
            {r \in rows : /\ r.memo_type = regex_to_sql_pattern(PatternString(PROPOSAL))
                          /\ r.transaction_result = "tesSUCCESS"}
        prompt_results ==
            {r \in rows : /\ r.memo_type = regex_to_sql_pattern(PatternString(VERIFICATION_PROMPT))
                          /\ r.transaction_result = "tesSUCCESS"
                          /\ r.destination = request_tx.account}
        rewards_results ==
            {r \in rows : /\ r.account = request_tx.account
                          /\ r.memo_type = regex_to_sql_pattern(PatternString(REWARD))
                          /\ r.transaction_result = "tesSUCCESS"
                          /\ r.datetime >= Now - REWARD_EVALUATION_WINDOW}
    IN  IF proposal_results = {}
        THEN [raised |-> TRUE, error |-> "No original proposal found", context |-> NoContext]
        ELSE IF prompt_results = {}
        THEN [raised |-> TRUE, error |-> "No verification prompt found", context |-> NoContext]
        ELSE [raised |-> FALSE, error |-> "",
              context |->
                [initial_task |-> Latest(proposal_results).memo_data,
                 verification_prompt |-> Latest(prompt_results).memo_data,
                 verification_response |-> request_tx.memo_data,
                 reward_history |->
                    [k \in 1..Cardinality(rewards_results) |->
                        <<Descending(rewards_results)[k].memo_data, "REWARD",
                          abs(Descending(rewards_results)[k].pft_amount)>>],
                 proposed_reward |-> AfterLastDots(Latest(proposal_results).memo_data)]]

----------------------------------------------------------------------------
(* Specifications SpecOriginalTask and SpecTaskContext: a request of a     *)
(* task is answered against a history of stored memos.                     *)

user_address == "rUser"
other_address == "rOther"

TransactionResults == {"tesSUCCESS", "tecPATH_DRY"}

\* The memos a history may hold, each at its own time. Memos 6 to 8 are sent
\* by another account and carry a memo_type of its choosing.
HistoryMemo(k, result) ==
    CASE k = 1 -> TxRow(TaskA \o Sep \o PROPOSAL, TextA, result, 1, node_address, user_address, 0)
      [] k = 2 -> TxRow(TaskA \o Sep \o PROPOSAL, TextA2, result, 2, node_address, user_address, 0)
      [] k = 3 -> TxRow(TaskB \o Sep \o PROPOSAL, TextB, result, 3, node_address, user_address, 0)
      [] k = 4 -> TxRow(TaskA \o Sep \o VERIFICATION_PROMPT, PromptA, result, 5, node_address, user_address, 0)
      [] k = 5 -> TxRow(TaskB \o Sep \o VERIFICATION_PROMPT, PromptB, result, 6, node_address, user_address, 0)
      [] k = 6 -> TxRow(regex_to_sql_pattern(PatternString(PROPOSAL)), ForeignText, result, 7, other_address, node_address, 0)
      [] k = 7 -> TxRow(regex_to_sql_pattern(PatternString(VERIFICATION_PROMPT)), ForeignText, result, 8, other_address, user_address, 0)
      [] k = 8 -> TxRow(regex_to_sql_pattern(PatternString(REWARD)), ForeignText, result, 9, user_address, node_address, 0 - 5)

\* Every memo of the menu is absent, stored as a success or stored as a failure
Histories(menu) ==
    {{HistoryMemo(k, choice[k]) : k \in {j \in menu : choice[j] # "absent"}} :
        choice \in [menu -> TransactionResults \cup {"absent"}]}

RequestTasks == {TaskA, TaskB}

\* The TASK_COMPLETION request of a task, sent after its proposals
CompletionRequest(t) ==
    TxRow(t \o Sep \o TASK_COMPLETION, CompletionText, "tesSUCCESS", 4, user_address, node_address, 0)

\* The VERIFICATION_RESPONSE request of a task, sent after its prompt
VerificationResponseRequest(t) ==
    TxRow(t \o Sep \o VERIFICATION_RESPONSE, ResponseText, "tesSUCCESS", Now, user_address, node_address, 0)

InitOriginalTask ==
    /\ \E t \in RequestTasks, rows \in Histories({1, 2, 3, 6}), stored \in BOOLEAN :
          args = [task |-> t, request_tx |-> CompletionRequest(t),
                  rows |-> IF stored THEN rows \cup {CompletionRequest(t)} ELSE rows]
    /\ outcome = <<>>
    /\ IdleDerive /\ IdlePair /\ IdleTask /\ IdleReward /\ IdleTable /\ IdleGraph /\ IdleDiscord

\* VerificationPromptGenerator.evaluate_request
VerificationEvaluate ==
    /\ outcome' = <<verification_evaluate_request(args.rows, args.request_tx)>>
    /\ UNCHANGED <<args, deriveVars, pairVars, taskVars, rewardVars, tableVars, graphVars, discordVars>>

SpecOriginalTask == InitOriginalTask /\ [][VerificationEvaluate]_vars

InitTaskContext ==
    /\ \E t \in RequestTasks, rows \in Histories(1..8) :
          args = [task |-> t, request_tx |-> VerificationResponseRequest(t),
                  rows |-> rows \cup {VerificationResponseRequest(t)}]
    /\ outcome = <<>>
    /\ IdleDerive /\ IdlePair /\ IdleTask /\ IdleReward /\ IdleTable /\ IdleGraph /\ IdleDiscord

\* RewardResponseGenerator._get_task_context
GetTaskContext ==
    /\ outcome' = <<_get_task_context(args.rows, args.request_tx)>>
    /\ UNCHANGED <<args, deriveVars, pairVars, taskVars, rewardVars, tableVars, graphVars, discordVars>>

SpecTaskContext == InitTaskContext /\ [][GetTaskContext]_vars

----------------------------------------------------------------------------
(* Claims about the task history the generators read.                      *)

\* The successful memos of a task with a suffix
SuccessfulOf(rows, t, suffix) ==
    {r \in rows : r.memo_type = t \o Sep \o suffix /\ r.transaction_result = "tesSUCCESS"}

\* C17: when a TASK_COMPLETION request of task T is answered, the original
\* task text given to the reasoning capability is the memo_data of the most
\* recent successful T__PROPOSAL memo, and of no other memo.
C17_OriginalTaskIsLatestProposal ==
    \A i \in 1..Len(outcome) :
        LET proposals == SuccessfulOf(args.rows, args.task, PROPOSAL) IN
        (proposals # {} \/ ~outcome[i].raised) =>
            /\ ~outcome[i].raised
            /\ proposals # {}
            /\ outcome[i].original_task = Latest(proposals).memo_data

\* C18: for a verification response of task T whose history holds a
\* successful T__PROPOSAL and a successful T__VERIFICATION_PROMPT sent to the
\* requester, _get_task_context succeeds and returns the texts of the latest
\* of each as initial_task and verification_prompt.
C18_TaskContextIsOfTheTask ==
    \A i \in 1..Len(outcome) :
        LET proposals == SuccessfulOf(args.rows, args.task, PROPOSAL)
            prompts == {r \in SuccessfulOf(args.rows, args.task, VERIFICATION_PROMPT) :
                            r.destination = args.request_tx.account}
        IN  (proposals # {} /\ prompts # {}) =>
                /\ ~outcome[i].raised
                /\ outcome[i].context.initial_task = Latest(proposals).memo_data
                /\ outcome[i].context.verification_prompt = Latest(prompts).memo_data

----------------------------------------------------------------------------
(* Claims about the three task rules.                                      *)

TaskRulePatterns == {"request_post_fiat", "task_output", "verification_response"}

----------------------------------------------------------------------------
(* Specification SpecHandshakeResponse: a handshake request is validated   *)
(* and, when valid, answered by HandshakeResponseGenerator.                *)
(* args is [tx, deps, custom_id].                                          *)

\* The secret type chosen whatever the address
_determine_secret_type_mutant(address) ==
    IF address \in {node_address, remembrancer_address} THEN "NODE" ELSE "ValueError"

\* SecretType of the identity with this address; ValueError for any other
_determine_secret_type(address) ==
    IF address = node_address THEN "NODE"
    ELSE IF address = remembrancer_address THEN "REMEMBRANCER"
    ELSE "ValueError"

_get_source_name(secret_type) ==
    CASE secret_type = "NODE" -> node_name
      [] secret_type = "REMEMBRANCER" -> remembrancer_name
      [] OTHER -> None

\* cred_manager.get_ecdh_public_key(secret_type): the public key of that identity
get_ecdh_public_key(secret_type) ==
    CASE secret_type = "NODE" -> "ecdh_public_key_node"
      [] secret_type = "REMEMBRANCER" -> "ecdh_public_key_remembrancer"

\* HandshakeResponseGenerator.evaluate_request: the result and the
\* collaborators called on the way
handshake_evaluate_request(request_tx) ==
    LET secret_type == _determine_secret_type(request_tx.destination) IN
    IF secret_type = "ValueError"
    THEN [raised |-> TRUE, calls |-> {}, destination |-> "", ecdh_key |-> "",
          source |-> "", secret_type |-> secret_type]
    ELSE [raised |-> FALSE, calls |-> {"cred_manager.get_ecdh_public_key"},
          destination |-> request_tx.account,
          ecdh_key |-> get_ecdh_public_key(secret_type),
          source |-> request_tx.destination,
          secret_type |-> secret_type]

\* HandshakeResponseGenerator.construct_response
handshake_construct_response(request_tx, evaluation_result, custom_id) ==
    Return([source |-> _get_source_name(evaluation_result.secret_type),
            memo_data |-> evaluation_result.ecdh_key,
            memo_type |-> custom_id \o Sep \o HANDSHAKE_RESPONSE,
            destination |-> evaluation_result.destination,
            pft_amount |-> None])

\* evaluate_request, then construct_response on its result
handshake_generate(request_tx, custom_id) ==
    LET evaluation_result == handshake_evaluate_request(request_tx) IN
    [calls |-> evaluation_result.calls,
     response |-> IF evaluation_result.raised
                  THEN Raise("ValueError", "")
                  ELSE handshake_construct_response(request_tx, evaluation_result, custom_id)]

HandshakeCollaborators == {d \in Collaborators : d.pft_balance = 0 /\ ~d.balance_fails}

InitHandshakeResponse ==
    /\ \E account \in {"rUser", "rOther"}, d \in Destinations, key \in {KeyGood, KeyBad},
          deps \in HandshakeCollaborators,
          id \in {VersionPrefix \o Stamp2 \o DisQQ74, VersionPrefix \o Stamp1 \o DisTASK} :
          args = [tx |-> [account |-> account, destination |-> d, memo_data |-> key,
                          pft_amount |-> 0],
                  deps |-> deps,
                  custom_id |-> id]
    /\ outcome = <<>>
    /\ IdleDerive /\ IdlePair /\ IdleTask /\ IdleReward /\ IdleTable /\ IdleGraph /\ IdleDiscord

\* HandshakeRequestRule.validate
HandshakeValidate ==
    /\ outcome = <<>>
    /\ outcome' = <<rule_validate("handshake_request", args.tx, args.deps)>>
    /\ UNCHANGED <<args, deriveVars, pairVars, taskVars, rewardVars, tableVars, graphVars, discordVars>>

\* The response generator runs for a request that passed validation
HandshakeRespond ==
    /\ Len(outcome) = 1
    /\ ~outcome[1].raised
    /\ outcome[1].result.valid
    /\ outcome' = Append(outcome, handshake_generate(args.tx, args.custom_id))
    /\ UNCHANGED <<args, deriveVars, pairVars, taskVars, rewardVars, tableVars, graphVars, discordVars>>

NextHandshakeResponse == HandshakeValidate \/ HandshakeRespond

SpecHandshakeResponse == InitHandshakeResponse /\ [][NextHandshakeResponse]_vars

\* The public key of the node identity with this address
PublicKeyOf(address) ==
    IF address = node_address THEN get_ecdh_public_key("NODE")
    ELSE get_ecdh_public_key("REMEMBRANCER")

----------------------------------------------------------------------------
(* Claims about the encryption of ODV replies.                             *)

\* get_handshake_for_address returned the keys of both parties
HandshakeComplete(a) ==
    /\ ~a.handshake.raises
    /\ a.handshake.channel_key # ""
    /\ a.handshake.counterparty_key # ""

\* C23: for an ODV request that carries the '[Decrypted]' marker,
\* construct_response never returns the reply in plaintext: it returns the
\* reply encrypted under the shared secret of a completed key exchange, or it
\* raises. A request without the marker gets a reply not marked for
\* encryption.
C23_EncryptedRequestNeverAnsweredInPlaintext ==
    \A i \in 1..Len(outcome) : \A k \in 1..Len(outcome[i].memo) :
        IF Contains(args.request_tx.memo_data, Decrypted)
        THEN /\ outcome[i].memo[k].memo_data = encrypt_message(args.odv_response, args.secret)
             /\ args.secret # "raises"
             /\ HandshakeComplete(args)
        ELSE /\ ~outcome[i].memo[k].should_encrypt
             /\ outcome[i].memo[k].memo_data = Plaintext(args.odv_response)

\* An encrypted reply was returned for a request with the marker
C23_Witness ==
    \E i \in 1..Len(outcome) :
        /\ Contains(args.request_tx.memo_data, Decrypted)
        /\ outcome[i].kind = "returned"
        /\ outcome[i].memo[1].memo_data.encrypted
        /\ outcome[i].memo[1].memo_data.shared_secret = "ks"

----------------------------------------------------------------------------
(* decode_hex_memo, the SQL function that decodes the memo fields.         *)
(* A text value is a sequence of characters; the decoded text is the       *)
(* sequence of its code points. A NULL text is Null.                       *)

Null == <<"NULL">>

HexDigits == <<"0", "1", "2", "3", "4", "5", "6", "7", "8", "9", "a", "b", "c", "d", "e", "f">>
UpperHexDigits == <<"0", "1", "2", "3", "4", "5", "6", "7", "8", "9", "A", "B", "C", "D", "E", "F">>

IsHexDigit(c) == \E v \in 1..16 : HexDigits[v] = c \/ UpperHexDigits[v] = c
HexValue(c) == (CHOOSE v \in 1..16 : HexDigits[v] = c \/ UpperHexDigits[v] = c) - 1

SqlError == [ok |-> FALSE, value |-> <<>>]

\* decode(text, 'hex'): whitespace is skipped, the digits are taken in pairs;
\* a character that is no hex digit or an odd number of digits is an error
decode_hex(text) ==
    LET digits == SelectSeq(text, LAMBDA c : ~IsSpace(c)) IN
    IF (\E i \in 1..Len(digits) : ~IsHexDigit(digits[i])) \/ Len(digits) % 2 = 1
    THEN SqlError
    ELSE Ok([k \in 1..(Len(digits) \div 2) |->
                16 * HexValue(digits[2 * k - 1]) + HexValue(digits[2 * k])])

\* The number of bytes of the UTF-8 sequence a byte starts, 0 if it starts none
Utf8Length(b) ==
    IF b < 128 THEN 1
    ELSE IF b \in 194..223 THEN 2
    ELSE IF b \in 224..239 THEN 3
    ELSE IF b \in 240..244 THEN 4
    ELSE 0

IsContinuation(b) == b \in 128..191

\* The code point of the UTF-8 sequence of n bytes at position i
Utf8CodePoint(bytes, i, n) ==
    CASE n = 1 -> bytes[i]
      [] n = 2 -> (bytes[i] - 192) * 64 + (bytes[i + 1] - 128)
      [] n = 3 -> (bytes[i] - 224) * 4096 + (bytes[i + 1] - 128) * 64 + (bytes[i + 2] - 128)
      [] n = 4 -> (bytes[i] - 240) * 262144 + (bytes[i + 1] - 128) * 4096
                    + (bytes[i + 2] - 128) * 64 + (bytes[i + 3] - 128)

\* A well-formed sequence of n bytes starts at position i: continuation
\* bytes, shortest form, no surrogate, no NUL
Utf8ValidAt(bytes, i, n) ==
    /\ n > 0
    /\ i + n - 1 <= Len(bytes)
    /\ \A k \in 1..(n - 1) : IsContinuation(bytes[i + k])
    /\ LET cp == Utf8CodePoint(bytes, i, n) IN
       CASE n = 1 -> cp # 0
         [] n = 2 -> cp >= 128
         [] n = 3 -> cp >= 2048 /\ cp \notin 55296..57343
         [] n = 4 -> cp \in 65536..1114111

\* convert_from(bytes, 'UTF8') from position i on
RECURSIVE convert_from_utf8(_, _)
convert_from_utf8(bytes, i) ==
    IF i > Len(bytes) THEN Ok(<<>>)
    ELSE LET n == Utf8Length(bytes[i]) IN
         IF ~Utf8ValidAt(bytes, i, n) THEN SqlError
         ELSE LET rest == convert_from_utf8(bytes, i + n) IN
              IF rest.ok THEN Ok(<<Utf8CodePoint(bytes, i, n)>> \o rest.value) ELSE SqlError

\* convert_from(decode(text, 'hex'), 'UTF8')
hex_to_text(text) ==
    LET bytes == decode_hex(text) IN
    IF bytes.ok THEN convert_from_utf8(bytes.value, 1) ELSE SqlError

\* POSITION('\x' in memo_text) = 1
StartsWithBackslashX(text) == Len(text) >= 2 /\ text[1] = "\\" /\ text[2] = "x"

\* The function with the prefix cut off one character short
decode_hex_memo_mutant(memo_text) ==
    IF memo_text = Null THEN Ok(<<>>)
    ELSE IF StartsWithBackslashX(memo_text)
    THEN hex_to_text(SubSeq(memo_text, 2, Len(memo_text)))
    ELSE hex_to_text(memo_text)

decode_hex_memo(memo_text) ==
    IF memo_text = Null THEN Ok(<<>>)
    ELSE IF StartsWithBackslashX(memo_text)
    THEN hex_to_text(SubSeq(memo_text, 3, Len(memo_text)))
    ELSE hex_to_text(memo_text)

----------------------------------------------------------------------------
(* Specification SpecDecode: decode_hex_memo is applied to a memo field.   *)
(* args is [kind, memo_text, text]: a NULL, the hex form of a text (with   *)
(* or without the prefix), or some other text.                             *)

MaxText == 2         \* code points of an encoded text

\* H, o, e with acute accent, the euro sign
CodePoints == {72, 111, 233, 8364}

Hello == <<72, 101, 108, 108, 111>>

\* The UTF-8 bytes of a code point below 65536
Utf8Encode(cp) ==
    IF cp < 128 THEN <<cp>>
    ELSE IF cp < 2048 THEN <<192 + (cp \div 64), 128 + (cp % 64)>>
    ELSE <<224 + (cp \div 4096), 128 + ((cp \div 64) % 64), 128 + (cp % 64)>>

\* The two hex digits of a byte, in lower or upper case
HexOfByte(b, upper) ==
    IF upper THEN <<UpperHexDigits[(b \div 16) + 1], UpperHexDigits[(b % 16) + 1]>>
    ELSE <<HexDigits[(b \div 16) + 1], HexDigits[(b % 16) + 1]>>

RECURSIVE HexOfText(_, _)
HexOfText(text, upper) ==
    IF text = <<>> THEN <<>>
    ELSE LET bytes == Utf8Encode(Head(text)) IN
         HexOfByte(bytes[1], upper)
           \o (IF Len(bytes) >= 2 THEN HexOfByte(bytes[2], upper) ELSE <<>>)
           \o (IF Len(bytes) >= 3 THEN HexOfByte(bytes[3], upper) ELSE <<>>)
           \o HexOfText(Tail(text), upper)

BackslashX == <<"\\", "x">>

EncodedTexts == {Hello} \cup UNION {[1..n -> CodePoints] : n \in 0..MaxText}

\* Texts that are not the hex form of a text
OtherTexts ==
    {<<"4">>, <<"g", "g">>, <<"c", "3">>, <<"0", "0">>, <<"8", "0">>, <<"\\", "X", "4", "8">>,
     <<"x", "4", "8">>, <<"4", "8", " ", "6", "5">>, <<"4", "8", "\\", "x">>}

InitDecode ==
    /\ \/ args = [kind |-> "null", memo_text |-> Null, text |-> <<>>]
       \/ \E text \in EncodedTexts, prefix \in {<<>>, BackslashX}, upper \in BOOLEAN :
             args = [kind |-> "encoded", memo_text |-> prefix \o HexOfText(text, upper),
                     text |-> text]
       \/ \E raw \in OtherTexts : args = [kind |-> "other", memo_text |-> raw, text |-> <<>>]
    /\ outcome = <<>>
    /\ IdleDerive /\ IdlePair /\ IdleTask /\ IdleReward /\ IdleTable /\ IdleGraph /\ IdleDiscord

\* SELECT decode_hex_memo(memo_text)
DecodeHexMemo ==
    /\ outcome' = <<decode_hex_memo(args.memo_text)>>
    /\ UNCHANGED <<args, deriveVars, pairVars, taskVars, rewardVars, tableVars, graphVars, discordVars>>

SpecDecode == InitDecode /\ [][DecodeHexMemo]_vars

\* C25: decode_hex_memo gives the empty text for NULL and the UTF-8 text of
\* the hex digits, after the prefix backslash-x when the input begins with
\* it and of the whole input otherwise.
C25_DecodeHexMemo ==
    \A i \in 1..Len(outcome) :
        /\ args.kind = "null" => outcome[i] = Ok(<<>>)
        /\ args.kind = "encoded" => outcome[i] = Ok(args.text)

\* '\x48656c6c6f' decoded to 'Hello'
C25_Witness ==
    \E i \in 1..Len(outcome) :
        /\ args.memo_text = BackslashX \o <<"4", "8", "6", "5", "6", "c", "6", "c", "6", "f">>
        /\ outcome[i] = Ok(Hello)

----------------------------------------------------------------------------
(* Specification SpecHolders: transactions are inserted into               *)
(* postfiat_tx_cache; process_tx_memos_trigger writes their row of         *)
(* transaction_memos and update_pft_holders_trigger, for a row that was    *)
(* inserted there, the balances. A column that may be NULL holds <<>> for  *)
(* NULL and <<v>> for the value v.                                         *)

MaxTransactions == 3

Accounts == {"rUser", "rNode"}

\* NULLIF(value, 0)
NULLIF0(value) == IF value = <<0>> THEN <<>> ELSE value

\* The row process_tx_memos writes for the transaction NEW
MemoRowOf(new_row) ==
    [hash |-> new_row.hash,
     account |-> new_row.account,
     destination |-> new_row.destination,
     pft_amount |-> NULLIF0(new_row.delivered_amount),
     memo_type |-> decode_hex_memo(new_row.MemoType).value,
     datetime |-> new_row.close_time_iso,
     transaction_result |-> new_row.TransactionResult]

\* process_tx_memos: INSERT ... ON CONFLICT (hash) DO UPDATE, only for a
\* transaction that has memos
process_tx_memos(rows, new_row) ==
    IF ~new_row.has_memos THEN rows
    ELSE {r \in rows : r.hash # new_row.hash} \cup {MemoRowOf(new_row)}

\* SELECT balance INTO current_balance ...; IF current_balance IS NULL THEN 0
current_balance(holders, account) ==
    IF account \in DOMAIN holders THEN holders[account].balance ELSE 0

\* INSERT INTO pft_holders ... ON CONFLICT (account) DO UPDATE
UpsertHolder(holders, account, balance, new_row) ==
    [a \in DOMAIN holders \cup {account} |->
        IF a = account THEN [balance |-> balance, last_updated |-> new_row.datetime,
                             last_tx_hash |-> new_row.hash]
        ELSE holders[a]]

\* update_pft_holders for the row NEW of transaction_memos
update_pft_holders(holders, new_row) ==
    IF new_row.transaction_result # "tesSUCCESS" THEN holders
    ELSE LET sender ==
                IF new_row.pft_amount # <<>>
                THEN UpsertHolder(holders, new_row.account,
                                  current_balance(holders, new_row.account) - new_row.pft_amount[1], new_row)
                ELSE holders
         IN  IF new_row.destination # <<>> /\ new_row.pft_amount # <<>>
             THEN UpsertHolder(sender, new_row.destination[1],
                               current_balance(sender, new_row.destination[1]) + new_row.pft_amount[1], new_row)
             ELSE sender

\* The trigger declared AFTER INSERT OR UPDATE ON transaction_memos
update_pft_holders_trigger_mutant(holders, rows, new_row) ==
    IF new_row.has_memos
    THEN update_pft_holders(holders, MemoRowOf(new_row))
    ELSE holders

\* update_pft_holders_trigger, AFTER INSERT ON transaction_memos FOR EACH
\* ROW: it fires for the row process_tx_memos inserted into rows, and not
\* when the INSERT ended in ON CONFLICT (hash) DO UPDATE
update_pft_holders_trigger(holders, rows, new_row) ==
    IF new_row.has_memos /\ ~(\E r \in rows : r.hash = new_row.hash)
    THEN update_pft_holders(holders, MemoRowOf(new_row))
    ELSE holders

\* The transactions the ledger can deliver next: a payment of an issued
\* amount or of XRP (no delivered value), or a transaction without
\* destination, each with or without memos, successful or not
NextTransactions(n) ==
    {[hash |-> n, close_time_iso |-> n, account |-> a, destination |-> d,
      delivered_amount |-> v, has_memos |-> m, MemoType |-> <<"4", "8">>,
      TransactionResult |-> r] :
        a \in Accounts, d \in {<<>>} \cup {<<b>> : b \in Accounts}, v \in {<<>>, <<5>>},
        m \in BOOLEAN, r \in TransactionResults}

InitHolders ==
    /\ postfiat_tx_cache = {}
    /\ transaction_memos = {}
    /\ pft_holders = <<>>
    /\ IdleDerive /\ IdlePair /\ IdleTask /\ IdleReward /\ IdleCall /\ IdleGraph /\ IdleDiscord

\* INSERT INTO postfiat_tx_cache, with the triggers it fires
InsertTransaction ==
    /\ Cardinality(postfiat_tx_cache) < MaxTransactions
    /\ \E new_row \in NextTransactions(Cardinality(postfiat_tx_cache) + 1) :
          /\ new_row.destination = <<>> => new_row.delivered_amount = <<>>
          /\ postfiat_tx_cache' = postfiat_tx_cache \cup {new_row}
          /\ transaction_memos' = process_tx_memos(transaction_memos, new_row)
          /\ pft_holders' = update_pft_holders_trigger(pft_holders, transaction_memos, new_row)
    /\ UNCHANGED <<deriveVars, pairVars, taskVars, rewardVars, callVars, graphVars, discordVars>>

SpecHolders == InitHolders /\ [][InsertTransaction]_vars

\* The successful transfers of the cache
Transfers ==
    {t \in postfiat_tx_cache :
        /\ t.TransactionResult = "tesSUCCESS"
        /\ t.destination # <<>>
        /\ t.delivered_amount # <<>>}

RECURSIVE TotalAmount(_)
TotalAmount(transfers) ==
    IF transfers = {} THEN 0
    ELSE LET t == CHOOSE x \in transfers : TRUE
         IN  t.delivered_amount[1] + TotalAmount(transfers \ {t})

\* C24: after any sequence of inserts, the balance of every account in
\* pft_holders is the total of the successful transfers it received minus the
\* total of those it sent; a transaction that did not succeed changes none.
C24_BalanceIsNetOfSuccessfulTransfers ==
    \A a \in Accounts :
        current_balance(pft_holders, a) =
            TotalAmount({t \in Transfers : t.destination = <<a>>})
              - TotalAmount({t \in Transfers : t.account = a})

----------------------------------------------------------------------------
(* Specification SpecDeriveAny: derive_response_memo_type is called with   *)
(* memo_types of any shape. args is [request_memo_type, response_memo_type]. *)

LeadingTexts == {<<>>, VersionPrefix, <<"x", "x">>, <<"R", "E", ":", " ">>}
TrailingTexts == {<<>>, <<"_">>, Sep \o TASK_REQUEST, Sep \o ODV_REQUEST}
TextsWithoutId == {<<>>, <<"h", "i">>, TASK_REQUEST, <<"2", "0", "2", "5">> \o Sep \o TASK_REQUEST}

AnyMemoTypes ==
    TextsWithoutId
      \cup {l \o s \o d \o t : l \in LeadingTexts, s \in Stamps, d \in Disambiguators,
                               t \in TrailingTexts}

InitDeriveAny ==
    /\ args \in [request_memo_type : AnyMemoTypes, response_memo_type : {PROPOSAL, ODV_RESPONSE}]
    /\ outcome = <<>>
    /\ IdleDerive /\ IdlePair /\ IdleTask /\ IdleReward /\ IdleTable /\ IdleGraph /\ IdleDiscord

DeriveAny ==
    /\ outcome' = <<derive_response_memo_type(args.request_memo_type, args.response_memo_type)>>
    /\ UNCHANGED <<args, deriveVars, pairVars, taskVars, rewardVars, tableVars, graphVars, discordVars>>

SpecDeriveAny == InitDeriveAny /\ [][DeriveAny]_vars

\* s is an id from position i on, followed by '__' and a suffix
IdThenSuffixAt(s, i) ==
    /\ StampAt(s, i)
    /\ \/ Len(s) > i + 17 /\ SubSeq(s, i + 16, i + 17) = Sep
       \/ DisambAt(s, i + 16) /\ Len(s) > i + 23 /\ SubSeq(s, i + 22, i + 23) = Sep

\* The {UNIQUE_ID}__{SUFFIX} shape, the id with or without its version prefix
HasIdSuffixShape(s) ==
    \/ IdThenSuffixAt(s, 1)
    \/ /\ Len(s) > Len(VersionPrefix)
       /\ SubSeq(s, 1, Len(VersionPrefix)) = VersionPrefix
       /\ IdThenSuffixAt(s, Len(VersionPrefix) + 1)

\* C26: derive_response_memo_type raises, and returns no memo_type, for every
\* input that does not have the {UNIQUE_ID}__{SUFFIX} shape, an id-like token
\* embedded after other text included.
C26_DeriveRaisesOnOtherShapes ==
    \A i \in 1..Len(outcome) :
        ~HasIdSuffixShape(args.request_memo_type) => ~outcome[i].ok

----------------------------------------------------------------------------
(* Specification SpecCreate: TaskManagementRules.create builds the rules   *)
(* and adds the patterns to the graph one add_pattern call after the       *)
(* other; the finished business logic then serves the observed memos: the  *)
(* memo is classified and the rule bound to its pattern id is looked up.   *)

\* The MemoPattern constant passed as memo_pattern for a pattern id
PatternConstant(pattern_id) ==
    CASE pattern_id = "initiation_rite" -> "INITIATION_RITE_PATTERN"
      [] pattern_id = "initiation_reward" -> "INITIATION_REWARD_PATTERN"
      [] pattern_id = "google_doc_link" -> "GOOGLE_DOC_LINK_PATTERN"
      [] pattern_id = "handshake_request" -> "HANDSHAKE_PATTERN"
      [] pattern_id = "handshake_response" -> "HANDSHAKE_RESPONSE_PATTERN"
      [] pattern_id = "request_post_fiat" -> "REQUEST_POST_FIAT_PATTERN"
      [] pattern_id = "proposal" -> "PROPOSAL_PATTERN"
      [] pattern_id = "acceptance" -> "ACCEPTANCE_PATTERN"
      [] pattern_id = "refusal" -> "REFUSAL_PATTERN"
      [] pattern_id = "task_output" -> "TASK_COMPLETION_PATTERN"
      [] pattern_id = "verification_prompt" -> "VERIFICATION_PROMPT_PATTERN"
      [] pattern_id = "verification_response" -> "VERIFICATION_RESPONSE_PATTERN"
      [] pattern_id = "reward" -> "REWARD_PATTERN"
      [] pattern_id = "odv_request" -> "ODV_REQUEST_PATTERN"
      [] pattern_id = "odv_response" -> "ODV_RESPONSE_PATTERN"
      [] pattern_id = "corbanu_reward" -> "CORBANU_REWARD_PATTERN"

\* transaction_type of each add_pattern call
TransactionType(pattern_id) ==
    IF pattern_id \in {"initiation_rite", "handshake_request", "request_post_fiat",
                       "task_output", "verification_response", "odv_request"}
    THEN "REQUEST"
    ELSE IF pattern_id \in {"initiation_reward", "handshake_response", "proposal",
                            "verification_prompt", "reward", "odv_response"}
    THEN "RESPONSE"
    ELSE "STANDALONE"

\* valid_responses of each add_pattern call
ValidResponses(pattern_id) ==
    CASE pattern_id = "initiation_rite" -> {"INITIATION_REWARD_PATTERN"}
      [] pattern_id = "handshake_request" -> {"HANDSHAKE_RESPONSE_PATTERN"}
      [] pattern_id = "request_post_fiat" -> {"PROPOSAL_PATTERN"}
      [] pattern_id = "task_output" -> {"VERIFICATION_PROMPT_PATTERN"}
      [] pattern_id = "verification_response" -> {"REWARD_PATTERN"}
      [] pattern_id = "odv_request" -> {"ODV_RESPONSE_PATTERN"}
      [] OTHER -> {}

\* notify of each add_pattern call
Notify(pattern_id) ==
    pattern_id \notin {"handshake_request", "handshake_response", "odv_request", "odv_response"}

\* The rules dictionary of create
Rules ==
    [pattern_id \in {RegisteredPatterns[k] : k \in 1..Len(RegisteredPatterns)} |->
        CASE pattern_id = "initiation_rite" -> "InitiationRiteRule"
          [] pattern_id = "initiation_reward" -> "InitiationRewardRule"
          [] pattern_id = "google_doc_link" -> "GoogleDocLinkRule"
          [] pattern_id = "handshake_request" -> "HandshakeRequestRule"
          [] pattern_id = "handshake_response" -> "HandshakeResponseRule"
          [] pattern_id = "request_post_fiat" -> "RequestPostFiatRule"
          [] pattern_id = "proposal" -> "ProposalRule"
          [] pattern_id = "acceptance" -> "AcceptanceRule"
          [] pattern_id = "refusal" -> "RefusalRule"
          [] pattern_id = "task_output" -> "TaskOutputRule"
          [] pattern_id = "verification_prompt" -> "VerificationPromptRule"
          [] pattern_id = "verification_response" -> "VerificationResponseRule"
          [] pattern_id = "reward" -> "RewardRule"
          [] pattern_id = "odv_request" -> "ODVRequestRule"
          [] pattern_id = "odv_response" -> "ODVResponseRule"
          [] pattern_id = "corbanu_reward" -> "CorbanuRewardRule"]

\* The base classes, with AcceptanceRule declared a ResponseRule
RuleBase_mutant(rule) ==
    IF rule \in {"InitiationRiteRule", "HandshakeRequestRule", "RequestPostFiatRule",
                 "TaskOutputRule", "VerificationResponseRule", "ODVRequestRule"}
    THEN "RequestRule"
    ELSE IF rule \in {"InitiationRewardRule", "HandshakeResponseRule", "ProposalRule",
                      "VerificationPromptRule", "RewardRule", "ODVResponseRule",
                      "AcceptanceRule"}
    THEN "ResponseRule"
    ELSE "StandaloneRule"

\* The base class each rule class is declared with
RuleBase(rule) ==
    IF rule \in {"InitiationRiteRule", "HandshakeRequestRule", "RequestPostFiatRule",
                 "TaskOutputRule", "VerificationResponseRule", "ODVRequestRule"}
    THEN "RequestRule"
    ELSE IF rule \in {"InitiationRewardRule", "HandshakeResponseRule", "ProposalRule",
                      "VerificationPromptRule", "RewardRule", "ODVResponseRule"}
    THEN "ResponseRule"
    ELSE "StandaloneRule"

InitCreate ==
    /\ transaction_graph = <<>>
    /\ pattern_rule_map = <<>>
    /\ IdleDerive /\ IdlePair /\ IdleTask /\ IdleReward /\ IdleCall /\ IdleTable /\ IdleDiscord

\* graph.add_pattern(...), the next call of create
AddPattern ==
    /\ Len(transaction_graph) < Len(RegisteredPatterns)
    /\ LET pattern_id == RegisteredPatterns[Len(transaction_graph) + 1] IN
       transaction_graph' =
          Append(transaction_graph,
                 [pattern_id |-> pattern_id,
                  memo_pattern |-> PatternConstant(pattern_id),
                  transaction_type |-> TransactionType(pattern_id),
                  valid_responses |-> ValidResponses(pattern_id),
                  notify |-> Notify(pattern_id)])
    /\ UNCHANGED <<pattern_rule_map, deriveVars, pairVars, taskVars, rewardVars, callVars, tableVars, discordVars>>

\* return cls(transaction_graph=graph, pattern_rule_map=rules)
ReturnRules ==
    /\ Len(transaction_graph) = Len(RegisteredPatterns)
    /\ pattern_rule_map = <<>>
    /\ pattern_rule_map' = Rules
    /\ UNCHANGED <<transaction_graph, deriveVars, pairVars, taskVars, rewardVars, callVars, tableVars, discordVars>>

\* A memo is observed: the graph classifies it and its rule is looked up
LookupRule ==
    /\ pattern_rule_map # <<>>
    /\ outcome = <<>>
    /\ \E t \in TripleMemoTypes, f \in MemoFormats, d \in MemoDatas :
          LET tx == [memo_type |-> t, memo_format |-> f, memo_data |-> d]
              order == [k \in 1..Len(transaction_graph) |-> transaction_graph[k].pattern_id]
              pattern_id == classify_in(order, tx)
          IN  /\ args' = tx
              /\ outcome' =
                    <<[pattern_id |-> pattern_id,
                       rule |-> IF pattern_id \in DOMAIN pattern_rule_map
                                THEN pattern_rule_map[pattern_id] ELSE None]>>
    /\ UNCHANGED <<deriveVars, pairVars, taskVars, rewardVars, tableVars, graphVars, discordVars>>

NextCreate == AddPattern \/ ReturnRules \/ LookupRule

SpecCreate == InitCreate /\ [][NextCreate]_vars

\* The archetype a rule of this base class serves
ArchetypeOf(base) ==
    CASE base = "RequestRule" -> "REQUEST"
      [] base = "ResponseRule" -> "RESPONSE"
      [] base = "StandaloneRule" -> "STANDALONE"

\* C27: in the graph create returns, every valid response of a Request
\* pattern is itself registered as a Response pattern, every registered
\* pattern id is registered once and bound to a rule, and the role of that
\* rule is the archetype the pattern is registered with.
C27_GraphAndRulesAgree ==
    pattern_rule_map # <<>> =>
        \A k \in 1..Len(transaction_graph) :
            LET entry == transaction_graph[k] IN
            /\ entry.transaction_type = "REQUEST" =>
                  \A v \in entry.valid_responses :
                     \E j \in 1..Len(transaction_graph) :
                        /\ transaction_graph[j].memo_pattern = v
                        /\ transaction_graph[j].transaction_type = "RESPONSE"
            /\ \A j \in 1..Len(transaction_graph) :
                  transaction_graph[j].pattern_id = entry.pattern_id => j = k
            /\ entry.pattern_id \in DOMAIN pattern_rule_map
            /\ ArchetypeOf(RuleBase(pattern_rule_map[entry.pattern_id])) = entry.transaction_type

\* The finished graph classified an acceptance and found its standalone rule
C27_Witness ==
    /\ pattern_rule_map # <<>>
    /\ Len(transaction_graph) = 16
    /\ \E i \in 1..Len(outcome) :
          /\ outcome[i].pattern_id = "acceptance"
          /\ outcome[i].rule = "AcceptanceRule"

----------------------------------------------------------------------------
(* Specification SpecFindResponse: the query RequestPostFiatRule.find_response *)
(* builds for one task request, executed by find_transaction_response      *)
(* against a decoded_memos table holding any candidate rows.               *)

MaxCandidates == 2   \* rows of decoded_memos besides the request

third_party_address == "rOther"

\* The task request the query is built for: hash 1, closed at time 1
PairedRequest ==
    [hash |-> 1,
     account |-> "rUser",
     destination |-> node_address,
     memo_type |-> Stamp1 \o DisQQ74 \o Sep \o PatternSuffix("request_post_fiat"),
     transaction_result |-> "tesSUCCESS",
     close_time_iso |-> 1]

\* memo_type values of the candidate rows: the proposal of the request's
\* task and the proposal of another task
CandidateMemoTypes ==
    {Stamp1 \o DisQQ74 \o Sep \o ResponseSuffix("request_post_fiat"),
     Stamp2 \o DisQQ74 \o Sep \o ResponseSuffix("request_post_fiat")}

\* What a candidate row may hold in the columns the function reads
CandidateColumns ==
    [account : {node_address, third_party_address},
     destination : {"rUser", third_party_address},
     memo_type : CandidateMemoTypes,
     transaction_result : {"tesSUCCESS", "tecUNFUNDED_PAYMENT"},
     close_time_iso : 1..3]

CandidateRow(h, c) ==
    [hash |-> h,
     account |-> c.account,
     destination |-> c.destination,
     memo_type |-> c.memo_type,
     transaction_result |-> c.transaction_result,
     close_time_iso |-> c.close_time_iso]

CandidateHashes == 2..(MaxCandidates + 1)

\* Every table of at most MaxCandidates rows with distinct hashes
CandidateTables ==
    {{CandidateRow(h, f[h]) : h \in present} :
        present \in SUBSET CandidateHashes, f \in [CandidateHashes -> CandidateColumns]}

InitFindResponse ==
    /\ args \in [request : {PairedRequest}, rows : CandidateTables]
    /\ outcome = <<>>
    /\ IdleDerive /\ IdlePair /\ IdleTask /\ IdleReward /\ IdleTable /\ IdleGraph /\ IdleDiscord

\* The rule builds the ResponseQuery and the store executes it
ExecuteFindResponse ==
    /\ outcome = <<>>
    /\ outcome' = <<execute_query(find_response("request_post_fiat", args.request, cfg),
                                  args.rows \cup {args.request})>>
    /\ UNCHANGED <<args, deriveVars, pairVars, taskVars, rewardVars, tableVars, graphVars, discordVars>>

SpecFindResponse == InitFindResponse /\ [][ExecuteFindResponse]_vars

\* The candidate rows that succeeded and satisfy the pairing filter of the
\* request: addressed to the requester, after the request, with the derived
\* memo_type
Satisfying ==
    {d \in args.rows :
        /\ d.transaction_result = "tesSUCCESS"
        /\ d.destination = args.request.account
        /\ d.close_time_iso > args.request.close_time_iso
        /\ d.memo_type = Stamp1 \o DisQQ74 \o Sep \o ResponseSuffix("request_post_fiat")}

\* C28: find_transaction_response returns exactly one row, one with the
\* earliest timestamp among the successful rows that satisfy the pairing
\* filter, whenever there is such a row; it returns no row when there is
\* none; and it never returns a row of a transaction that did not succeed.
C28_EarliestSuccessfulRowOrNone ==
    outcome # <<>> =>
        /\ ~outcome[1].error
        /\ \A d \in outcome[1].rows : d.transaction_result = "tesSUCCESS"
        /\ Satisfying = {} => outcome[1].rows = {}
        /\ Satisfying # {} =>
              /\ Cardinality(outcome[1].rows) = 1
              /\ \A d \in outcome[1].rows :
                    /\ d \in Satisfying
                    /\ \A e \in Satisfying : d.close_time_iso <= e.close_time_iso

\* Several successful rows with different timestamps satisfy the filter and
\* the row returned is earlier than another of them
C28_Witness ==
    /\ outcome # <<>>
    /\ Cardinality(Satisfying) >= 2
    /\ \E d \in outcome[1].rows : \E e \in Satisfying : d.close_time_iso < e.close_time_iso

\* C29: a row is found as the response to a request only if it was sent by
\* the account that received the request to the request's sender.
C29_ResponseIsFromRequestDestination ==
    outcome # <<>> =>
        \A d \in outcome[1].rows :
            /\ d.account = args.request.destination
            /\ d.destination = args.request.account

----------------------------------------------------------------------------
(* Specification SpecTaskHistory: an account's memo history grows by one   *)
(* successful transaction at a time and get_tasks reconstructs the tasks   *)
(* from it whenever it is called.                                          *)

MaxHistory == 4      \* memo groups in the account's history

\* The memo group of one further transaction of the first task: any memo
\* type with the task's id, dated after every group already there
FurtherGroups(n) ==
    {[task |-> TaskIds[1], suffix |-> s, datetime |-> n + 1, content |-> c, pft_amount |-> 20] :
        s \in TaskTypeSet \cup {"OTHER"}, c \in {"", "more"}}

\* The account has sent one task request
InitTaskHistory ==
    /\ history = LifecycleGroups(TaskIds[1], <<"TASK_REQUEST">>, 1)
    /\ tasks = <<>>
    /\ view = <<>>
    /\ IdleDerive /\ IdlePair /\ IdleReward /\ IdleCall /\ IdleTable /\ IdleGraph /\ IdleDiscord

\* get_account_memo_history returns one more memo group
ExtendHistory(g) ==
    /\ Len(history) < MaxHistory
    /\ history' = Append(history, g)
    /\ UNCHANGED <<tasks, view, deriveVars, pairVars, rewardVars, callVars, tableVars, graphVars, discordVars>>

NextTaskHistory ==
    \/ \E g \in FurtherGroups(Len(history)) : ExtendHistory(g)
    \/ GetTasks

SpecTaskHistory == InitTaskHistory /\ [][NextTaskHistory]_vars

\* The place of a stage in the order request, proposal, acceptance, refusal,
\* completion, verification_prompt, verification_response, reward
StageRank(state_type) == CHOOSE k \in 1..Len(TaskTypes) : TaskTypes[k] = state_type

\* C30: every task of a reconstruction is, in every reconstruction from an
\* extended history, at the same stage or at a later one.
C30_StateNeverMovesBack ==
    [][\A i \in 1..Len(tasks) : \E j \in 1..Len(tasks') :
            /\ tasks'[j].task_id = tasks[i].task_id
            /\ StageRank(current_state(tasks'[j])) >= StageRank(current_state(tasks[i]))]_vars

----------------------------------------------------------------------------
(* Specification SpecPermute: Task.from_memo_groups is called on the memo  *)
(* groups of one task in one order and in another order.                   *)

MaxGroups == 3       \* memo groups of the task

\* The memo groups a task may have: requests and proposals that differ in
\* content and may share a timestamp (transactions of one ledger close at
\* the same time)
PermutedGroups ==
    {[task |-> TaskIds[1], suffix |-> s, datetime |-> d, content |-> c, pft_amount |-> 10] :
        s \in {"TASK_REQUEST", "PROPOSAL"}, d \in 1..2, c \in {"first", "second"}}

\* Every list holding each group of S once
Orderings(S) ==
    {f \in [1..Cardinality(S) -> S] : \A i, j \in 1..Cardinality(S) : i # j => f[i] # f[j]}

InitPermute ==
    /\ \E S \in SUBSET PermutedGroups :
          /\ S # {}
          /\ Cardinality(S) <= MaxGroups
          /\ args \in [memo_groups : Orderings(S), permuted : Orderings(S)]
    /\ outcome = <<>>
    /\ IdleDerive /\ IdlePair /\ IdleTask /\ IdleReward /\ IdleTable /\ IdleGraph /\ IdleDiscord

\* What a caller sees of Task.from_memo_groups(memo_groups)
Reconstructed(memo_groups) ==
    LET built == from_memo_groups(memo_groups)
    IN  [ok |-> built.ok, task |-> built.task, current_state |-> current_state(built.task)]

FromMemoGroups ==
    /\ outcome = <<>>
    /\ outcome' = <<Reconstructed(args.memo_groups), Reconstructed(args.permuted)>>
    /\ UNCHANGED <<args, deriveVars, pairVars, taskVars, rewardVars, tableVars, graphVars, discordVars>>

SpecPermute == InitPermute /\ [][FromMemoGroups]_vars

\* C31: Task.from_memo_groups returns the same task, with the same populated
\* fields, contents and current_state, for every two orders of the same
\* memo groups.
C31_ReconstructionIgnoresOrder ==
    outcome # <<>> => outcome[1] = outcome[2]

----------------------------------------------------------------------------
(* The authorization store and validation *)

\* What is_address_authorized may do for a sender, by the state of the
\* authorization store: answer yes, answer no (a sender flagged by an
\* earlier reward), or fail
AuthorizationStates == [authorized : BOOLEAN, authorization_fails : BOOLEAN]

\* The collaborators of one call with the authorization store in state s
WithAuthorization(deps, s) ==
    [deps EXCEPT !.authorized = s.authorized, !.authorization_fails = s.authorization_fails]

----------------------------------------------------------------------------
(* Specification SpecRedeliver: transactions are inserted into             *)
(* postfiat_tx_cache and cached transactions are delivered again: the      *)
(* cache row is written once more (an upsert that ends in an UPDATE of the *)
(* row), which fires process_tx_memos_trigger again. args holds the row of *)
(* the last repeated delivery.                                             *)

MaxCached == 2       \* transactions in the cache

InitRedeliver ==
    /\ args = <<>>
    /\ outcome = <<>>
    /\ IdleDerive /\ IdlePair /\ IdleTask /\ IdleReward /\ IdleTable /\ IdleGraph /\ IdleDiscord

FirstDelivery ==
    /\ Cardinality(postfiat_tx_cache) < MaxCached
    /\ InsertTransaction

\* UPDATE of the row of postfiat_tx_cache with the same hash, with the
\* triggers it fires
RedeliverTransaction(new_row) ==
    /\ new_row \in postfiat_tx_cache
    /\ args' = <<new_row>>
    /\ transaction_memos' = process_tx_memos(transaction_memos, new_row)
    /\ pft_holders' = update_pft_holders_trigger(pft_holders, transaction_memos, new_row)
    /\ UNCHANGED <<postfiat_tx_cache, outcome, deriveVars, pairVars, taskVars, rewardVars, graphVars, discordVars>>

NextRedeliver ==
    \/ FirstDelivery
    \/ \E new_row \in postfiat_tx_cache : RedeliverTransaction(new_row)

SpecRedeliver == InitRedeliver /\ [][NextRedeliver]_vars

\* The rows transaction_memos holds for a hash after the step
RowsAfter(hash) == {r \in transaction_memos' : r.hash = hash}

\* A step that delivers a cached transaction again
IsRedelivery == postfiat_tx_cache' = postfiat_tx_cache /\ args' # <<>>

\* C33 as stated: delivering a cached transaction again leaves exactly one
\* transaction_memos row for its hash and changes no account balance.
C33_RedeliveryLeavesOneRow ==
    [][IsRedelivery =>
            /\ Cardinality(RowsAfter(args'[1].hash)) = 1
            /\ pft_holders' = pft_holders]_vars

\* C33 amended: delivering a cached transaction again leaves exactly one
\* transaction_memos row for its hash when the transaction has memos and
\* none when it has not, leaves the row as it was, and changes no account
\* balance.
C33_RedeliveryLeavesOneRowAmended ==
    [][IsRedelivery =>
            /\ Cardinality(RowsAfter(args'[1].hash)) = (IF args'[1].has_memos THEN 1 ELSE 0)
            /\ transaction_memos' = transaction_memos
            /\ pft_holders' = pft_holders]_vars

\* A successful transfer with a memo was delivered again; its row is there
\* and the sender's balance holds the amount once
C33_Witness ==
    /\ args # <<>>
    /\ args[1].has_memos
    /\ args[1].TransactionResult = "tesSUCCESS"
    /\ args[1].delivered_amount = <<5>>
    /\ args[1].destination # <<>>
    /\ args[1].destination # <<args[1].account>>
    /\ Cardinality(postfiat_tx_cache) = 1
    /\ \E r \in transaction_memos : r.hash = args[1].hash
    /\ current_balance(pft_holders, args[1].account) = -5

----------------------------------------------------------------------------
(* Specification SpecSessions: two database sessions each insert one       *)
(* successful transfer with a memo. update_pft_holders runs inside the     *)
(* inserting session, statement by statement, at the default isolation     *)
(* level (READ COMMITTED): a SELECT sees what is committed and what the    *)
(* session wrote itself; INSERT ... ON CONFLICT waits while another        *)
(* session holds an uncommitted write of the row; the writes of a session  *)
(* become visible to the other at its commit. workers[w] is the session:   *)
(* its position, the row NEW, its variable current_balance and its         *)
(* uncommitted rows of pft_holders.                                        *)

Sessions == {1, 2}

\* The transfers a session may insert: successful, with a memo and an amount
SessionTransfers(w) ==
    {t \in NextTransactions(w) :
        /\ t.has_memos
        /\ t.TransactionResult = "tesSUCCESS"
        /\ t.destination # <<>>
        /\ t.delivered_amount # <<>>}

InitSessions ==
    /\ workers \in [Sessions -> [pc : {"select_sender"}, tx : UNION {SessionTransfers(w) : w \in Sessions},
                                 current_balance : {0}, written : {<<>>}]]
    /\ \A w \in Sessions : workers[w].tx \in SessionTransfers(w)
    /\ cfg = [USE_TESTNET |-> FALSE, ENABLE_REINITIATIONS |-> FALSE]
    /\ store = {}
    /\ clock = 0
    /\ outbox = {}
    /\ sent = <<>>
    /\ IdleDerive /\ IdleTask /\ IdleReward /\ IdleCall /\ IdleTable /\ IdleGraph /\ IdleDiscord

\* The rows of pft_holders a statement of session w sees
VisibleTo(w) ==
    [a \in DOMAIN pft_holders \cup DOMAIN workers[w].written |->
        IF a \in DOMAIN workers[w].written THEN workers[w].written[a] ELSE pft_holders[a]]

\* The account the statements at position pc work on
AccountAt(w) ==
    IF workers[w].pc \in {"select_sender", "upsert_sender"}
    THEN workers[w].tx.account
    ELSE workers[w].tx.destination[1]

\* Another session holds an uncommitted write of the account's row
LockedByOther(w, account) ==
    \E v \in Sessions \ {w} :
        workers[v].pc \notin {"committed", "aborted"} /\ account \in DOMAIN workers[v].written

\* SELECT balance INTO current_balance FROM pft_holders WHERE account = ...
SelectBalance(w) ==
    /\ workers[w].pc \in {"select_sender", "select_recipient"}
    /\ workers' = [workers EXCEPT
          ![w].current_balance = current_balance(VisibleTo(w), AccountAt(w)),
          ![w].pc = IF @ = "select_sender" THEN "upsert_sender" ELSE "upsert_recipient"]
    /\ UNCHANGED <<cfg, store, clock, outbox, sent, deriveVars, taskVars, rewardVars, callVars, tableVars, graphVars, discordVars>>

\* INSERT INTO pft_holders ... VALUES (current_balance -/+ NEW.pft_amount)
\* ON CONFLICT (account) DO UPDATE SET balance = EXCLUDED.balance
UpsertBalance(w) ==
    /\ workers[w].pc \in {"upsert_sender", "upsert_recipient"}
    /\ ~LockedByOther(w, AccountAt(w))
    /\ LET new_row == MemoRowOf(workers[w].tx)
           balance == IF workers[w].pc = "upsert_sender"
                      THEN workers[w].current_balance - new_row.pft_amount[1]
                      ELSE workers[w].current_balance + new_row.pft_amount[1]
       IN  workers' = [workers EXCEPT
              ![w].written = UpsertHolder(@, AccountAt(w), balance, new_row),
              ![w].pc = IF @ = "upsert_sender" THEN "select_recipient" ELSE "commit"]
    /\ UNCHANGED <<cfg, store, clock, outbox, sent, deriveVars, taskVars, rewardVars, callVars, tableVars, graphVars, discordVars>>

\* The session commits its insert and what the triggers wrote
CommitSession(w) ==
    /\ workers[w].pc = "commit"
    /\ postfiat_tx_cache' = postfiat_tx_cache \cup {workers[w].tx}
    /\ transaction_memos' = process_tx_memos(transaction_memos, workers[w].tx)
    /\ pft_holders' = VisibleTo(w)
    /\ workers' = [workers EXCEPT ![w].pc = "committed"]
    /\ UNCHANGED <<cfg, store, clock, outbox, sent, deriveVars, taskVars, rewardVars, callVars, graphVars, discordVars>>

\* Each of two sessions waits for a row the other wrote: the database ends
\* one of them with a deadlock error and its insert is rolled back
AbortOnDeadlock(w) ==
    /\ workers[w].pc \in {"upsert_sender", "upsert_recipient"}
    /\ \E v \in Sessions \ {w} :
          /\ workers[v].pc \in {"upsert_sender", "upsert_recipient"}
          /\ AccountAt(w) \in DOMAIN workers[v].written
          /\ AccountAt(v) \in DOMAIN workers[w].written
    /\ workers' = [workers EXCEPT ![w].pc = "aborted", ![w].written = <<>>]
    /\ UNCHANGED <<cfg, store, clock, outbox, sent, deriveVars, taskVars, rewardVars, callVars, tableVars, graphVars, discordVars>>

NextSessions ==
    \E w \in Sessions :
        \/ SelectBalance(w)
        \/ UpsertBalance(w)
        \/ CommitSession(w)
        \/ AbortOnDeadlock(w)

SpecSessions == InitSessions /\ [][NextSessions]_vars

\* C34: when both sessions have committed their transfer, the balance of
\* every account is the total it received minus the total it sent in both
\* transfers: no update is lost in any interleaving.
C34_NoLostUpdate ==
    (\A w \in Sessions : workers[w].pc = "committed") =>
        \A a \in Accounts :
            current_balance(pft_holders, a) =
                TotalAmount({t \in postfiat_tx_cache : t.destination = <<a>>})
                  - TotalAmount({t \in postfiat_tx_cache : t.account = a})

----------------------------------------------------------------------------
(* Specification SpecGenerate: construct_response of the generator that    *)
(* answers a request of pattern p. args is [p, request_tx, custom_id].     *)

\* What construct_response returns for the request: the addressing of the
\* memo; ok is FALSE when it raises
construct_response_memo(p, request_tx, custom_id) ==
    LET t == generator_memo_type(p, request_tx, custom_id) IN
    [ok |-> t.ok,
     source |-> generator_source(p, request_tx),
     destination |-> request_tx.account,
     memo_type |-> t.value]

\* memo_types of requests of pattern p, well formed or not
RequestMemoTypes(p) ==
    TextsWithoutId
      \cup {l \o s \o d \o Sep \o PatternSuffix(p) :
              l \in {<<>>, VersionPrefix}, s \in Stamps, d \in Disambiguators}

InitGenerate ==
    /\ \E p \in RequestPatterns, account \in {"rUser", third_party_address}, d \in Destinations :
          \E t \in RequestMemoTypes(p) :
             args = [p |-> p,
                     request_tx |-> [account |-> account, destination |-> d, memo_type |-> t,
                                     close_time_iso |-> 1],
                     custom_id |-> VersionPrefix \o Stamp2 \o DisQQ74]
    /\ outcome = <<>>
    /\ IdleDerive /\ IdlePair /\ IdleTask /\ IdleReward /\ IdleTable /\ IdleGraph /\ IdleDiscord

\* generator.construct_response(request_tx, evaluation_result)
ConstructResponseMemo ==
    /\ outcome = <<>>
    /\ outcome' = <<construct_response_memo(args.p, args.request_tx, args.custom_id)>>
    /\ UNCHANGED <<args, deriveVars, pairVars, taskVars, rewardVars, tableVars, graphVars, discordVars>>

SpecGenerate == InitGenerate /\ [][ConstructResponseMemo]_vars

\* C35: every memo a response generator returns is addressed to the sender
\* of the request it answers, and the memo_type of a task-scoped generator's
\* memo is the response_memo_type of the query the request rule's
\* find_response builds for the same request.
C35_MemoAnswersTheRequest ==
    \A i \in 1..Len(outcome) :
        outcome[i].ok =>
            /\ outcome[i].destination = args.request_tx.account
            /\ args.p \in TaskScoped =>
                  LET q == find_response(args.p, args.request_tx, cfg) IN
                  /\ q.ok
                  /\ q.account = outcome[i].destination
                  /\ q.response_memo_type = outcome[i].memo_type

\* The answer to an ODV request of the third party: an ODV_RESPONSE memo of
\* the same id, addressed to the third party
C35_Witness ==
    \E i \in 1..Len(outcome) :
        /\ args.p = "odv_request"
        /\ args.request_tx.account = third_party_address
        /\ args.request_tx.memo_type = Stamp1 \o DisQQ74 \o Sep \o ODV_REQUEST
        /\ outcome[i].ok
        /\ outcome[i].destination = third_party_address
        /\ outcome[i].memo_type = Stamp1 \o DisQQ74 \o Sep \o ODV_RESPONSE

----------------------------------------------------------------------------
(* Specification SpecMonitor: NodeMonitor. monitor is the record of its    *)
(* fields and pc the position of the task running monitor(): "created"     *)
(* (no task yet), "connecting" (in _monitor_xrpl, before the subscription  *)
(* succeeded), "monitoring" (reading messages), "sleeping" (in             *)
(* handle_connection_error, awaiting the delay), "stopped" (monitor()      *)
(* returned or was cancelled).                                             *)

max_reconnect_delay == 30
max_reconnect_attempts == 5

\* network_config.websockets
ws_urls == <<"wss://1", "wss://2", "wss://3">>

Minimum(a, b) == IF a < b THEN a ELSE b

\* NodeMonitor.__init__
InitMonitor ==
    /\ monitor = [pc |-> "created", shutdown |-> FALSE, ws_url_index |-> 0,
                  reconnect_delay |-> 1, reconnect_attempts |-> 0]
    /\ _active_chats = {}
    /\ chat = <<>>
    /\ IdleDerive /\ IdlePair /\ IdleTask /\ IdleReward /\ IdleCall /\ IdleTable /\ IdleGraph

\* _switch_node
_switch_node(m) == [m EXCEPT !.ws_url_index = (@ + 1) % Len(ws_urls)]

\* except Exception in monitor(): break on shutdown, else
\* handle_connection_error up to its sleep; returning False ends monitor()
handle_connection_error(m) ==
    IF m.shutdown
    THEN [m EXCEPT !.pc = "stopped"]
    ELSE IF m.reconnect_attempts + 1 > max_reconnect_attempts
    THEN [_switch_node(m) EXCEPT !.reconnect_attempts = 0, !.reconnect_delay = 1,
                                 !.pc = "stopped"]
    ELSE [m EXCEPT !.reconnect_attempts = @ + 1, !.pc = "sleeping"]

\* while not self._shutdown
LoopTo(m, pc) == [m EXCEPT !.pc = IF m.shutdown THEN "stopped" ELSE pc]

\* start(): the monitor task is created
StartMonitor ==
    /\ monitor.pc \in {"created", "stopped"}
    /\ monitor' = [monitor EXCEPT !.shutdown = FALSE, !.pc = "connecting"]
    /\ UNCHANGED <<_active_chats, chat, deriveVars, pairVars, taskVars, rewardVars, callVars, tableVars, graphVars>>

\* stop(): _shutdown is set and the task is cancelled at its await
StopMonitor ==
    /\ monitor.pc \in {"connecting", "monitoring", "sleeping"}
    /\ monitor' = [monitor EXCEPT !.shutdown = TRUE, !.pc = "stopped"]
    /\ UNCHANGED <<_active_chats, chat, deriveVars, pairVars, taskVars, rewardVars, callVars, tableVars, graphVars>>

\* _monitor_xrpl: the websocket opens and the subscription succeeds, or an
\* exception is raised
Connect(connected) ==
    /\ monitor.pc = "connecting"
    /\ monitor' = IF connected
                  THEN [monitor EXCEPT !.pc = "monitoring"]
                  ELSE handle_connection_error(monitor)
    /\ UNCHANGED <<_active_chats, chat, deriveVars, pairVars, taskVars, rewardVars, callVars, tableVars, graphVars>>

\* _monitor_xrpl ends: it returns when the stream of messages ends, and the
\* parameters are reset; or the connection raises
Disconnect(raised) ==
    /\ monitor.pc = "monitoring"
    /\ monitor' = IF raised
                  THEN handle_connection_error(monitor)
                  ELSE LoopTo([monitor EXCEPT !.reconnect_delay = 1, !.reconnect_attempts = 0],
                              "connecting")
    /\ UNCHANGED <<_active_chats, chat, deriveVars, pairVars, taskVars, rewardVars, callVars, tableVars, graphVars>>

\* handle_connection_error after its sleep: the delay doubles and monitor()
\* goes round its loop
Reconnect ==
    /\ monitor.pc = "sleeping"
    /\ monitor' = LoopTo([monitor EXCEPT !.reconnect_delay =
                                Minimum(@ * 2, max_reconnect_delay)], "connecting")
    /\ UNCHANGED <<_active_chats, chat, deriveVars, pairVars, taskVars, rewardVars, callVars, tableVars, graphVars>>

NextMonitor ==
    \/ StartMonitor
    \/ StopMonitor
    \/ \E connected \in BOOLEAN : Connect(connected)
    \/ \E raised \in BOOLEAN : Disconnect(raised)
    \/ Reconnect

SpecMonitor == InitMonitor /\ [][NextMonitor]_vars

\* C36: monitor() has stopped only when shutdown was requested, and the
\* reconnect delay never exceeds max_reconnect_delay.
C36_MonitorStopsOnlyOnShutdown ==
    /\ monitor.pc = "stopped" => monitor.shutdown
    /\ monitor.reconnect_delay <= max_reconnect_delay

----------------------------------------------------------------------------
(* Specification SpecChat: the /wai_chat command of WAIHandler. Each       *)
(* interaction runs the command as a task of its own; chat[i] is the user  *)
(* of interaction i and the position of its task: "idle" (not invoked),    *)
(* "greeting" (awaiting the first send_message), "waiting" (in wait_for),  *)
(* "handling" (in the intent handler), "bye_exit" (awaiting followup.send  *)
(* after 'exit', inside try), "bye_handler" (awaiting followup.send inside *)
(* an except block), "refused", "done", "failed" (an exception left the    *)
(* command).                                                               *)

MaxInteractions == 3

DiscordUsers == {"alice", "bob"}
Interactions == 1..MaxInteractions

\* dict.pop(key): raises KeyError when the key is absent
pop(chats, user) == [raised |-> user \notin chats, chats |-> chats \ {user}]

\* WAIHandler.__init__
InitChat ==
    /\ _active_chats = {}
    /\ chat = [i \in Interactions |-> [user |-> "", pc |-> "idle"]]
    /\ monitor = <<>>
    /\ IdleDerive /\ IdlePair /\ IdleTask /\ IdleReward /\ IdleCall /\ IdleTable /\ IdleGraph

\* /wai_chat up to its first await after the seed check
StartChat(i, user, seed) ==
    /\ chat[i].pc = "idle"
    /\ IF ~seed
       THEN /\ chat' = [chat EXCEPT ![i] = [user |-> user, pc |-> "done"]]
            /\ UNCHANGED _active_chats
       ELSE IF user \notin _active_chats
       THEN /\ _active_chats' = _active_chats \cup {user}
            /\ chat' = [chat EXCEPT ![i] = [user |-> user, pc |-> "greeting"]]
       ELSE /\ chat' = [chat EXCEPT ![i] = [user |-> user, pc |-> "refused"]]
            /\ UNCHANGED _active_chats
    /\ UNCHANGED <<monitor, deriveVars, pairVars, taskVars, rewardVars, callVars, tableVars, graphVars>>

\* await interaction.response.send_message("Hi! ..."), before the try block
Greet(i, delivered) ==
    /\ chat[i].pc = "greeting"
    /\ chat' = [chat EXCEPT ![i].pc = IF delivered THEN "waiting" ELSE "failed"]
    /\ UNCHANGED <<_active_chats, monitor, deriveVars, pairVars, taskVars, rewardVars, callVars, tableVars, graphVars>>

\* The except blocks: pop the user's entry, then send the closing message
ExceptBlock(i) ==
    LET r == pop(_active_chats, chat[i].user) IN
    /\ _active_chats' = r.chats
    /\ chat' = [chat EXCEPT ![i].pc = IF r.raised THEN "failed" ELSE "bye_handler"]

\* wait_for returns the user's next message, or times out after 60 seconds
Receive(i, event) ==
    /\ chat[i].pc = "waiting"
    /\ CASE event = "exit" ->
              LET r == pop(_active_chats, chat[i].user) IN
              IF r.raised
              THEN ExceptBlock(i)
              ELSE /\ _active_chats' = r.chats
                   /\ chat' = [chat EXCEPT ![i].pc = "bye_exit"]
         [] event = "timeout" -> ExceptBlock(i)
         [] OTHER ->
              /\ chat' = [chat EXCEPT ![i].pc = "handling"]
              /\ UNCHANGED _active_chats
    /\ UNCHANGED <<monitor, deriveVars, pairVars, taskVars, rewardVars, callVars, tableVars, graphVars>>

\* classify and handler.handle: they return, or raise
Handle(i, raised) ==
    /\ chat[i].pc = "handling"
    /\ IF raised
       THEN ExceptBlock(i)
       ELSE /\ chat' = [chat EXCEPT ![i].pc = "waiting"]
            /\ UNCHANGED _active_chats
    /\ UNCHANGED <<monitor, deriveVars, pairVars, taskVars, rewardVars, callVars, tableVars, graphVars>>

\* await interaction.followup.send(...) of a closing message
Farewell(i, delivered) ==
    /\ chat[i].pc \in {"bye_exit", "bye_handler"}
    /\ IF delivered
       THEN /\ chat' = [chat EXCEPT ![i].pc = "done"]
            /\ UNCHANGED _active_chats
       ELSE IF chat[i].pc = "bye_exit"
       THEN ExceptBlock(i)
       ELSE /\ chat' = [chat EXCEPT ![i].pc = "failed"]
            /\ UNCHANGED _active_chats
    /\ UNCHANGED <<monitor, deriveVars, pairVars, taskVars, rewardVars, callVars, tableVars, graphVars>>

NextChat ==
    \E i \in Interactions :
        \/ \E user \in DiscordUsers, seed \in BOOLEAN : StartChat(i, user, seed)
        \/ \E delivered \in BOOLEAN : Greet(i, delivered)
        \/ \E event \in {"exit", "timeout", "message"} : Receive(i, event)
        \/ \E raised \in BOOLEAN : Handle(i, raised)
        \/ \E delivered \in BOOLEAN : Farewell(i, delivered)

SpecChat == InitChat /\ [][NextChat]_vars

\* The interactions of a user whose chat session is going on
ActiveSessions(user) ==
    {i \in Interactions :
        chat[i].user = user /\ chat[i].pc \in {"greeting", "waiting", "handling"}}

\* C37: a user has at most one active chat session, and a user whose session
\* has ended on any path has no entry in the active chats.
C37_EndedSessionLeavesNoEntry ==
    \A user \in DiscordUsers :
        /\ Cardinality(ActiveSessions(user)) <= 1
        /\ user \in _active_chats => ActiveSessions(user) # {}

====
